---- MODULE Spec2Model ----
(***************************************************************************)
(* Job Watchdog: the pipeline of src/src/orchestrator.py (fetch,            *)
(* deduplicate, match, experience filter, top matches, save, notify,       *)
(* summary) over the SQLite store of src/src/database/repository.py, and   *)
(* the monthly quota of the external search source                         *)
(* (src/src/sources/india.py, src/job_watchdog.py).                        *)
(*                                                                         *)
(* Texts are TLA+ strings, read as sequences of characters:               *)
(* Len, SubSeq, Head, Tail and \o apply to them.                           *)
(***************************************************************************)
EXTENDS Integers, Sequences, FiniteSets, TLC

(***************************************************************************)
(* Bounds of the model.                                                    *)
(***************************************************************************)
\* postings one source returns in one fetch
MaxBatch == 2
\* pipeline runs (processes started one after the other on the same store)
MaxRuns == 2
\* largest days argument given to cleanup_old_jobs (its default is 30)
MaxDays == 1
\* executions of GoogleJobsSource.fetch_jobs sharing the store
MaxFetchers == 2
\* months of the quota model
MaxMonth == 2
\* settings.serpapi.monthly_limit and SERPAPI_MONTHLY_LIMIT (both 250)
MonthlyLimit == 2
\* requests the external search API receives in one month
MaxRequests == 4
\* calls of get_embedding in one process
MaxCalls == 5
\* sources of one fetch_all_jobs
MaxSources == 4
\* settings.search.max_concurrent_requests (10)
max_concurrent_requests == 2

(***************************************************************************)
(* Text helpers.                                                           *)
(***************************************************************************)
UpperLetters == "ABCDEFGHIJKLMNOPQRSTUVWXYZ"

LowerLetters == "abcdefghijklmnopqrstuvwxyz"

Digits == "0123456789"

\* the character at position i of s
Char(s, i) == SubSeq(s, i, i)

\* the characters of s
CharsOf(s) == { Char(s, i) : i \in 1..Len(s) }

\* the lower-case letter of each upper-case letter
LowerOf ==
    [c \in CharsOf(UpperLetters) |->
        Char(LowerLetters, CHOOSE i \in 1..Len(UpperLetters) : Char(UpperLetters, i) = c)]

\* str.lower() on one character
LowerChar(c) == IF c \in DOMAIN LowerOf THEN LowerOf[c] ELSE c

RECURSIVE Lower(_)
\* str.lower()
Lower(s) ==
    IF Len(s) <= 1 THEN (IF s = "" THEN "" ELSE LowerChar(s))
    ELSE LET half == Len(s) \div 2
         IN Lower(SubSeq(s, 1, half)) \o Lower(SubSeq(s, half + 1, Len(s)))

\* pat in text
Contains(text, pat) ==
    \E i \in 1..(Len(text) - Len(pat) + 1) : SubSeq(text, i, i + Len(pat) - 1) = pat

\* any(pat in text for pat in pats)
ContainsAny(text, pats) == \E k \in 1..Len(pats) : Contains(text, pats[k])

\* text.split(pat)[0]
Before(text, pat) ==
    IF Contains(text, pat)
    THEN LET i == CHOOSE i \in 1..Len(text) :
                      /\ SubSeq(text, i, i + Len(pat) - 1) = pat
                      /\ \A j \in 1..(i - 1) : SubSeq(text, j, j + Len(pat) - 1) # pat
         IN SubSeq(text, 1, i - 1)
    ELSE text

Whitespace == {" ", "\t", "\n"}

RECURSIVE LStrip(_)
LStrip(s) == IF s # "" /\ Head(s) \in Whitespace THEN LStrip(Tail(s)) ELSE s

RECURSIVE RStrip(_)
RStrip(s) ==
    IF s # "" /\ Char(s, Len(s)) \in Whitespace THEN RStrip(SubSeq(s, 1, Len(s) - 1))
    ELSE s

\* str.strip()
Strip(s) == RStrip(LStrip(s))

DigitChars == CharsOf(Digits)

\* the value of each digit
DigitValue ==
    [c \in DigitChars |-> (CHOOSE i \in 1..Len(Digits) : Char(Digits, i) = c) - 1]

RECURSIVE OnlyDigits(_)
\* ''.join(filter(str.isdigit, s))
OnlyDigits(s) ==
    IF s = "" THEN ""
    ELSE (IF Head(s) \in DigitChars THEN Head(s) ELSE "") \o OnlyDigits(Tail(s))

\* str.isdigit()
IsDigits(s) == s # "" /\ \A i \in 1..Len(s) : Char(s, i) \in DigitChars

RECURSIVE ToInt(_)
\* int(s) for a string of digits
ToInt(s) ==
    IF s = "" THEN 0
    ELSE ToInt(SubSeq(s, 1, Len(s) - 1)) * 10 + DigitValue[Char(s, Len(s))]

\* int(s or default)
IntOr(s, default) == IF s = "" THEN default ELSE ToInt(s)

RECURSIVE ToDigits(_)
\* str(n) for n >= 0
ToDigits(n) ==
    IF n < 10 THEN Char(Digits, n + 1)
    ELSE ToDigits(n \div 10) \o Char(Digits, (n % 10) + 1)

\* hashlib.md5(text.encode()).hexdigest()[:16]: a deterministic digest of the
\* text; distinct texts of the model have distinct digests
Md5Hex16(text) == "md5:" \o text

(***************************************************************************)
(* Python values, dates and ages.                                          *)
(***************************************************************************)
\* None, a str and an int
PyNone == [type |-> "NoneType", str |-> "", num |-> 0]

PyStr(s) == [type |-> "str", str |-> s, num |-> 0]

PyInt(n) == [type |-> "int", str |-> "", num |-> n]

\* bool(v)
Truthy(v) ==
    IF v.type = "str" THEN v.str # ""
    ELSE IF v.type = "int" THEN v.num # 0
    ELSE FALSE

\* str(v)
StrOf(v) ==
    IF v.type = "str" THEN v.str
    ELSE IF v.type = "int" THEN ToDigits(v.num)
    ELSE "None"

\* an age in hours is counted in minutes; float('inf') is Inf; Raised is an
\* exception that leaves the estimator
Minutes(m) == [kind |-> "finite", minutes |-> m]

Hours(h) == Minutes(h * 60)

Inf == [kind |-> "inf", minutes |-> 0]

Raised == [kind |-> "raise", minutes |-> 0]

\* age_hours <= max_hours
AgeAtMost(age, max_hours) == age.kind = "finite" /\ age.minutes <= max_hours * 60

IsLeap(y) == (y % 4 = 0 /\ y % 100 # 0) \/ y % 400 = 0

DaysInMonth(y, m) ==
    IF m = 2 THEN (IF IsLeap(y) THEN 29 ELSE 28)
    ELSE IF m \in {4, 6, 9, 11} THEN 30
    ELSE 31

\* days from 1970-01-01 to the date y-m-d
DayNumber(y, m, d) ==
    LET yy == IF m <= 2 THEN y - 1 ELSE y
        era == yy \div 400
        yoe == yy - era * 400
        mp == (m + 9) % 12
        doy == (153 * mp + 2) \div 5 + d - 1
        doe == yoe * 365 + yoe \div 4 - yoe \div 100 + doy
    IN era * 146097 + doe - 719468

\* a field of one or two digits with a value in lo..hi
IsField(s, lo, hi) == Len(s) \in 1..2 /\ IsDigits(s) /\ ToInt(s) \in lo..hi

\* datetime.strptime(s, '%Y-%m-%d'): minutes from the epoch to that midnight,
\* or ok = FALSE for ValueError
strptime_date(s) ==
    LET y == Before(s, "-")
        rest == SubSeq(s, Len(y) + 2, Len(s))
        m == Before(rest, "-")
        d == SubSeq(rest, Len(m) + 2, Len(rest))
    IN IF /\ Len(y) = 4 /\ IsDigits(y) /\ ToInt(y) >= 1
          /\ IsField(m, 1, 12)
          /\ IsField(d, 1, 31)
          /\ ToInt(d) <= DaysInMonth(ToInt(y), ToInt(m))
       THEN [ok |-> TRUE, minutes |-> DayNumber(ToInt(y), ToInt(m), ToInt(d)) * 1440]
       ELSE [ok |-> FALSE, minutes |-> 0]

\* datetime.strptime(s, '%Y-%m-%dT%H:%M:%S')
strptime_datetime(s) ==
    LET date == strptime_date(Before(s, "T"))
        time == SubSeq(s, Len(Before(s, "T")) + 2, Len(s))
        h == Before(time, ":")
        rest == SubSeq(time, Len(h) + 2, Len(time))
        mi == Before(rest, ":")
        sec == SubSeq(rest, Len(mi) + 2, Len(rest))
    IN IF /\ Contains(s, "T") /\ date.ok
          /\ IsField(h, 0, 23) /\ IsField(mi, 0, 59) /\ IsField(sec, 0, 61)
       THEN [ok |-> TRUE, minutes |-> date.minutes + ToInt(h) * 60 + ToInt(mi)]
       ELSE [ok |-> FALSE, minutes |-> 0]

\* datetime.now() of the run, and its minutes from the epoch
Now == "2026-03-01T10:30:00"

NowMinutes == strptime_datetime(Now).minutes

\* max(0, (now - posted_dt).total_seconds() / 3600 - less_hours), for posted_dt
\* at the given minutes from the epoch
AgeSince(minutes, less_hours) ==
    Minutes(IF NowMinutes - minutes - less_hours * 60 > 0
            THEN NowMinutes - minutes - less_hours * 60 ELSE 0)

RECURSIVE StripZeros(_)
\* a string of digits without its leading zeros
StripZeros(s) == IF s # "" /\ Head(s) = "0" THEN StripZeros(Tail(s)) ELSE s

\* datetime.fromtimestamp(ts) for the integer ts written as digits: minutes
\* from the epoch, or ok = FALSE when the year is out of range (after
\* 9999-12-31, ts = 253402300799).  An integer of the model has 32 bits: of
\* ten digits the last is not converted, and a time of eleven or twelve digits
\* (year 2286 and later) is a moment after Now.
fromtimestamp(digits) ==
    LET ts == StripZeros(digits)
        n == Len(ts)
    IN IF n = 0 THEN [ok |-> TRUE, minutes |-> 0]
       ELSE IF n <= 10
       THEN [ok |-> TRUE, minutes |-> ToInt(SubSeq(ts, 1, n - 1)) \div 6]
       ELSE IF \/ n = 11
               \/ /\ n = 12
                  /\ \/ ToInt(SubSeq(ts, 1, 9)) < 253402300
                     \/ /\ ToInt(SubSeq(ts, 1, 9)) = 253402300
                        /\ ToInt(SubSeq(ts, 10, 12)) <= 799
       THEN [ok |-> TRUE, minutes |-> NowMinutes + 1]
       ELSE [ok |-> FALSE, minutes |-> 0]

(***************************************************************************)
(* Sources and the postings they can return.                               *)
(***************************************************************************)
Naukri == "Naukri"

RemoteOK == "RemoteOK"

\* two of JobWatchdog.sources, in the order of _init_sources
Sources == <<Naukri, RemoteOK>>

SourceIdx == 1..Len(Sources)

\* scores are counted in millionths: 1.0 is One
One == 1000000

\* settings.matching.min_semantic_score (0.25)
MinScore == 250000

\* the profile texts of settings.profile
Profiles == {"data_science", "data_analytics"}

\* what the embedding backend gives for the text of a posting: the cosine
\* similarities of its embedding to the two profile texts, no embedding (None),
\* or an exception
Embedded(ds, da) == [kind |-> "ok", ds |-> ds, da |-> da]

NoEmbedding == [kind |-> "none", ds |-> 0, da |-> 0]

EmbeddingRaises == [kind |-> "raise", ds |-> 0, da |-> 0]

\* A RawJob as a source builds it (source = self.name); embedding is what
\* get_embedding and cosine_similarity give for its text.
RawJob(title, company, src, location, description, posted, embedding) ==
    [title |-> title, company |-> company, source |-> src, location |-> location,
     description |-> description, posted |-> posted, embedding |-> embedding]

\* what each site lists: the same job under two spellings and two
\* descriptions on Naukri (the second asks for ten years), the same title and
\* company on RemoteOK in junior-friendly words, posted a week ago, and a
\* posting whose title is excluded
PostingsOf(src) ==
    IF src = Naukri
    THEN { RawJob("Data", "Acme", src, "Pune",
                  "Work with python and sql on dashboards for our retail clients.",
                  PyStr("2 days ago"), Embedded(700000, 600000)),
           RawJob("data", "acme", src, "Pune",
                  "Needs 10 years of experience with sql and excel in a large bank.",
                  PyNone, Embedded(500000, 400000)) }
    ELSE { RawJob("Data", "Acme", src, "Remote",
                  "Entry level role, freshers welcome: python and tableau, fully remote.",
                  PyStr("1 week ago"), Embedded(600000, 650000)),
           RawJob("Chef", "Acme", src, "London", "Cook.", PyStr("3 days ago"), NoEmbedding) }

\* sequences of length at most n over S
SeqsUpTo(S, n) == UNION { [1..k -> S] : k \in 0..n }

\* a fingerprint that also hashes the description
job_id_with_description(job) ==
    Md5Hex16(Lower(job.title \o "_" \o job.company \o "_" \o job.source)
             \o job.description)

\* a fingerprint of title and company alone
job_id_without_source(job) ==
    Md5Hex16(Lower(job.title \o "_" \o job.company))

\* RawJob.job_id
job_id(job) ==
    Md5Hex16(Lower(job.title \o "_" \o job.company \o "_" \o job.source))

AllPostings == UNION { PostingsOf(Sources[s]) : s \in SourceIdx }

AllIds == { job_id(p) : p \in AllPostings }

(***************************************************************************)
(* State.                                                                  *)
(***************************************************************************)
VARIABLES
    feed,          \* what each source's site currently lists
    db_jobs,       \* table jobs: job_id -> [status, age], age = now - fetched_at
                   \* in days, counted up to MaxDays + 1
    scan_history,  \* rows the current run added to table scan_history
    scan_count,    \* number of rows of table scan_history
    deliveries,    \* job_id -> number of notifications the channel accepted
    pc,            \* position of the current run of JobWatchdog.run
    runs,          \* runs started so far
    telegram,      \* settings.telegram.is_configured of the current run
    stats,         \* JobWatchdog.stats (ScanStats)
    batches,       \* result of each _fetch_from_source task
    raw_jobs,      \* result of fetch_all_jobs
    known_ids,     \* known_ids read by deduplicate_jobs
    new_jobs,      \* result of deduplicate_jobs
    processed,     \* processed_jobs (ProcessedJob objects)
    top_matches,   \* top_matches, as indices of processed (shared objects)
    to_notify,     \* jobs_to_notify, as indices of processed
    send_results,  \* what send_job returned for each posting so far
    insert_error,  \* index of the posting whose INSERT raised (0: none)
    last_run,      \* batch of the previous process if its run returned and the
                   \* store was not swept since
    impl,          \* which program runs: "src" (src/src) or "legacy" (job_watchdog.py)
    api_usage,     \* table api_usage: month -> call_count of "serpapi"
    usage_file,    \* serpapi_usage.txt: "month,count" (month 0: no file)
    month,         \* the current month
    requests,      \* month -> requests sent to the external search API
    fetcher,       \* state of each execution of GoogleJobsSource.fetch_jobs
    llm_todo,      \* relevant_jobs of filter_jobs_batch, as indices of processed
    llm_calls,     \* index of processed -> how its filter_job call ended
    profile_embeddings,  \* SemanticMatcher._profile_embeddings: the profiles
                         \* that have an embedding
    sample,        \* a posting given to the matcher, the quick filter and the
                   \* age estimators on their own
    applied,       \* name of a function -> what it returned for sample
    _model,        \* module global _model of semantic.py: "None" or "loaded"
    _model_failed, \* module global _model_failed
    _embeddings_cache,  \* keys of module global _embeddings_cache
    embedding_calls,    \* calls of get_embedding so far
    load_attempts,      \* times get_model tried to build the SentenceTransformer
    backend_failed,     \* a load or an encode has failed since the start or the
                        \* last reset_model
    fetch_pc,      \* position of each fetch_with_limit task of fetch_all_jobs
    semaphore,     \* the asyncio.Semaphore of fetch_all_jobs: _value, _waiters
    payload,       \* the job_list RemoteOKSource.fetch_jobs got from the site
    remoteok,      \* RemoteOKSource.fetch_jobs: next item, jobs, error, done
    listing,       \* what the source of the legacy script returns for each
                   \* search configuration
    legacy_main    \* main of job_watchdog.py: position, all_jobs, new_matches,
                   \* history, telegram_ok and the job ids given to send_telegram

pipeline_vars == <<feed, db_jobs, scan_history, scan_count, deliveries, pc, runs, telegram,
                   stats, batches, raw_jobs, known_ids, new_jobs, processed,
                   top_matches, to_notify, send_results, insert_error, last_run,
                   llm_todo, llm_calls>>

quota_vars == <<impl, api_usage, usage_file, month, requests, fetcher>>

matcher_vars == <<profile_embeddings, sample, applied>>

backend_vars == <<_model, _model_failed, _embeddings_cache, embedding_calls,
                  load_attempts, backend_failed>>

fetch_vars == <<fetch_pc, semaphore>>

normalizer_vars == <<payload, remoteok>>

legacy_vars == <<listing, legacy_main>>

component_vars == <<backend_vars, fetch_vars, normalizer_vars, legacy_vars>>

vars == <<feed, db_jobs, scan_history, scan_count, deliveries, pc, runs, telegram,
          stats, batches, raw_jobs, known_ids, new_jobs, processed,
          top_matches, to_notify, send_results, insert_error, last_run,
          impl, api_usage, usage_file, month, requests, fetcher,
          llm_todo, llm_calls, profile_embeddings, sample, applied,
          _model, _model_failed, _embeddings_cache, embedding_calls,
          load_attempts, backend_failed, fetch_pc, semaphore, payload, remoteok,
          listing, legacy_main>>

\* ScanStats()
NewScanStats ==
    [completed_at |-> "None", total_fetched |-> 0, total_new |-> 0,
     total_matched |-> 0, total_filtered_llm |-> 0, total_notified |-> 0,
     errors |-> <<>>]

Pending == [kind |-> "pending", jobs |-> <<>>, error |-> "None"]

NoRun == [valid |-> FALSE, jobs |-> <<>>]

(***************************************************************************)
(* Pure parts of the pipeline.                                             *)
(***************************************************************************)
RECURSIVE dedup_loop(_, _, _, _)
\* the for loop of deduplicate_jobs
dedup_loop(jobs, known, seen_ids, unique_jobs) ==
    IF jobs = <<>> THEN unique_jobs
    ELSE LET job == Head(jobs) IN
         IF job_id(job) \in known
         THEN dedup_loop(Tail(jobs), known, seen_ids, unique_jobs)
         ELSE IF job_id(job) \in seen_ids
         THEN dedup_loop(Tail(jobs), known, seen_ids, unique_jobs)
         ELSE dedup_loop(Tail(jobs), known, seen_ids \cup {job_id(job)},
                         Append(unique_jobs, job))

RECURSIVE dedup_loop_lastwins(_, _, _, _)
\* the same loop from the end of the list: the last posting of a fingerprint wins
dedup_loop_lastwins(jobs, known, seen_ids, unique_jobs) ==
    IF jobs = <<>> THEN unique_jobs
    ELSE LET job == jobs[Len(jobs)] IN
         IF job_id(job) \in known \/ job_id(job) \in seen_ids
         THEN dedup_loop_lastwins(SubSeq(jobs, 1, Len(jobs) - 1), known, seen_ids,
                                  unique_jobs)
         ELSE dedup_loop_lastwins(SubSeq(jobs, 1, Len(jobs) - 1), known,
                                  seen_ids \cup {job_id(job)}, <<job>> \o unique_jobs)

deduplicate_jobs_lastwins(jobs, known) == dedup_loop_lastwins(jobs, known, {}, <<>>)

\* a deduplication within the batch only
deduplicate_jobs_ignores_store(jobs, known) == dedup_loop(jobs, {}, {}, <<>>)

\* JobWatchdog.deduplicate_jobs
deduplicate_jobs(jobs, known) == dedup_loop(jobs, known, {}, <<>>)

(***************************************************************************)
(* The age estimators.                                                     *)
(***************************************************************************)
\* settings.search.max_job_age_hours, and MAX_JOB_AGE_HOURS of job_watchdog.py
max_job_age_hours == 168

MAX_JOB_AGE_HOURS == 12

\* int(''.join(filter(str.isdigit, text.split(unit)[0])) or default)
CountBefore(text, unit, default) == IntOr(OnlyDigits(Before(text, unit)), default)

\* the age a rule gives, or that the rule does not apply
Applies(age) == [applies |-> TRUE, age |-> age]

NotApplicable == [applies |-> FALSE, age |-> Inf]

\* the ISO date rule of SemanticMatcher._parse_job_age
iso_date_rule(posted) ==
    IF Contains(posted, "T") \/ (Contains(posted, "-") /\ Len(posted) >= 10)
    THEN LET date_part == IF Contains(posted, "T") THEN Before(posted, "T")
                          ELSE SubSeq(posted, 1, 10)
             posted_dt == strptime_date(Before(date_part, "+"))
         IN IF posted_dt.ok THEN Applies(AgeSince(posted_dt.minutes, 0))
            ELSE NotApplicable
    ELSE NotApplicable

\* the Unix timestamp rule of SemanticMatcher._parse_job_age: a timestamp
\* above 1000000000000 is in milliseconds
unix_rule(posted) ==
    IF IsDigits(posted) /\ Len(posted) >= 10
    THEN LET ts == StripZeros(posted)
             millis == Len(ts) > 13 \/ (Len(ts) = 13 /\ ts # "1000000000000")
             posted_dt == fromtimestamp(IF millis THEN SubSeq(ts, 1, Len(ts) - 3) ELSE ts)
         IN IF posted_dt.ok THEN Applies(AgeSince(posted_dt.minutes, 0))
            ELSE NotApplicable
    ELSE NotApplicable

\* a variant of _parse_job_age that looks for 'day' before 'today' and
\* 'yesterday'
_parse_job_age_day_first(posted) ==
    IF ~Truthy(posted) THEN Hours(24)
    ELSE LET posted_lower == Strip(Lower(StrOf(posted))) IN
         IF ContainsAny(posted_lower, <<"just", "now", "moment", "second", "few">>)
         THEN Hours(0)
         ELSE IF Contains(posted_lower, "minute")
         THEN Minutes(CountBefore(posted_lower, "minute", 0))
         ELSE IF Contains(posted_lower, "hour")
         THEN Hours(CountBefore(posted_lower, "hour", 0))
         ELSE IF Contains(posted_lower, "day")
         THEN Hours(CountBefore(posted_lower, "day", 0) * 24)
         ELSE IF Contains(posted_lower, "today") THEN Hours(6)
         ELSE IF Contains(posted_lower, "yesterday") THEN Hours(30)
         ELSE IF Contains(posted_lower, "week")
         THEN Hours(CountBefore(posted_lower, "week", 1) * 7 * 24)
         ELSE IF Contains(posted_lower, "month") \/ Contains(posted_lower, "year")
         THEN Inf
         ELSE IF posted.type # "str" THEN Raised
         ELSE IF iso_date_rule(posted.str).applies THEN iso_date_rule(posted.str).age
         ELSE IF unix_rule(posted.str).applies THEN unix_rule(posted.str).age
         ELSE Hours(24)

\* SemanticMatcher._parse_job_age
_parse_job_age(posted) ==
    IF ~Truthy(posted) THEN Hours(24)
    ELSE LET posted_lower == Strip(Lower(StrOf(posted))) IN
         IF ContainsAny(posted_lower, <<"just", "now", "moment", "second", "few">>)
         THEN Hours(0)
         ELSE IF Contains(posted_lower, "minute")
         THEN Minutes(CountBefore(posted_lower, "minute", 0))
         ELSE IF Contains(posted_lower, "hour")
         THEN Hours(CountBefore(posted_lower, "hour", 0))
         ELSE IF Contains(posted_lower, "today") THEN Hours(6)
         ELSE IF Contains(posted_lower, "yesterday") THEN Hours(30)
         ELSE IF Contains(posted_lower, "day")
         THEN Hours(CountBefore(posted_lower, "day", 0) * 24)
         ELSE IF Contains(posted_lower, "week")
         THEN Hours(CountBefore(posted_lower, "week", 1) * 7 * 24)
         ELSE IF Contains(posted_lower, "month") \/ Contains(posted_lower, "year")
         THEN Inf
         ELSE IF posted.type # "str" THEN Raised
         ELSE IF iso_date_rule(posted.str).applies THEN iso_date_rule(posted.str).age
         ELSE IF unix_rule(posted.str).applies THEN unix_rule(posted.str).age
         ELSE Hours(24)

\* the rule of parse_job_age_hours for ISO dates with a timezone
legacy_iso_timezone_rule(posted) ==
    IF Contains(posted, "T") /\ (Contains(posted, "+") \/ Contains(posted, "Z"))
    THEN LET date_part == Before(Before(Before(posted, "+"), "Z"), ".")
             posted_dt == strptime_datetime(date_part)
         IN IF posted_dt.ok THEN Applies(AgeSince(posted_dt.minutes, 0))
            ELSE NotApplicable
    ELSE NotApplicable

\* the rule of parse_job_age_hours for simple ISO dates: the posting is taken
\* to be from noon of that day
legacy_iso_date_rule(posted) ==
    IF Contains(posted, "-")
    THEN LET date_part == IF Contains(posted, "T") THEN Before(posted, "T")
                          ELSE SubSeq(posted, 1, 10)
             posted_dt == strptime_date(date_part)
         IN IF posted_dt.ok THEN Applies(AgeSince(posted_dt.minutes, 12))
            ELSE NotApplicable
    ELSE NotApplicable

\* the rule of parse_job_age_hours for a Unix timestamp given as a string
legacy_unix_rule(posted) ==
    IF IsDigits(posted) /\ Len(posted) >= 10
    THEN LET posted_dt == fromtimestamp(posted)
         IN IF posted_dt.ok THEN Applies(AgeSince(posted_dt.minutes, 0))
            ELSE NotApplicable
    ELSE NotApplicable

\* parse_job_age_hours of job_watchdog.py
parse_job_age_hours(value) ==
    IF ~Truthy(value) THEN Inf
    ELSE IF value.type = "int"
    THEN (IF fromtimestamp(ToDigits(value.num)).ok
          THEN AgeSince(fromtimestamp(ToDigits(value.num)).minutes, 0)
          ELSE Inf)
    ELSE LET posted == Strip(StrOf(value))
             posted_lower == Lower(posted)
         IN
         IF posted = "" THEN Inf
         ELSE IF ContainsAny(posted_lower, <<"just", "now", "moment", "second">>)
         THEN Hours(0)
         ELSE IF Contains(posted_lower, "minute")
         THEN Minutes(CountBefore(posted_lower, "minute", 0))
         ELSE IF Contains(posted_lower, "hour")
         THEN Hours(CountBefore(posted_lower, "hour", 0))
         ELSE IF Contains(posted_lower, "today") THEN Hours(3)
         ELSE IF Contains(posted_lower, "yesterday") THEN Hours(30)
         ELSE IF Contains(posted_lower, "day") /\ Contains(posted_lower, "ago")
         THEN Hours(CountBefore(posted_lower, "day", 0) * 24)
         ELSE IF Contains(posted_lower, "week") THEN Inf
         ELSE IF Contains(posted_lower, "month") THEN Inf
         ELSE IF legacy_iso_timezone_rule(posted).applies
         THEN legacy_iso_timezone_rule(posted).age
         ELSE IF legacy_iso_date_rule(posted).applies
         THEN legacy_iso_date_rule(posted).age
         ELSE IF legacy_unix_rule(posted).applies THEN legacy_unix_rule(posted).age
         ELSE Hours(3)

\* is_job_fresh of job_watchdog.py
is_job_fresh(posted) == AgeAtMost(parse_job_age_hours(posted), MAX_JOB_AGE_HOURS)

\* the ISO date rule of BaseJobSource._parse_job_age_hours
base_iso_date_rule(posted) ==
    IF Contains(posted, "T") \/ Contains(posted, "-")
    THEN LET date_part == IF Contains(posted, "T") THEN Before(posted, "T")
                          ELSE SubSeq(posted, 1, 10)
             posted_dt == strptime_date(Before(date_part, "+"))
         IN IF posted_dt.ok THEN Applies(AgeSince(posted_dt.minutes, 0))
            ELSE NotApplicable
    ELSE NotApplicable

\* BaseJobSource._parse_job_age_hours
_parse_job_age_hours(posted) ==
    IF ~Truthy(posted) THEN Inf
    ELSE LET posted_lower == Strip(Lower(StrOf(posted))) IN
         IF ContainsAny(posted_lower, <<"just", "now", "moment", "second">>)
         THEN Hours(0)
         ELSE IF Contains(posted_lower, "minute")
         THEN Minutes(CountBefore(posted_lower, "minute", 0))
         ELSE IF Contains(posted_lower, "hour")
         THEN Hours(CountBefore(posted_lower, "hour", 0))
         ELSE IF Contains(posted_lower, "today") THEN Hours(6)
         ELSE IF Contains(posted_lower, "yesterday") THEN Hours(30)
         ELSE IF Contains(posted_lower, "day")
         THEN Hours(CountBefore(posted_lower, "day", 0) * 24)
         ELSE IF Contains(posted_lower, "week") \/ Contains(posted_lower, "month")
         THEN Inf
         ELSE IF posted.type # "str" THEN Raised
         ELSE IF base_iso_date_rule(posted.str).applies
         THEN base_iso_date_rule(posted.str).age
         ELSE Hours(12)

\* the age of a rule whose condition holds, else that the rule does not apply
When(condition, age) == IF condition THEN Applies(age) ELSE NotApplicable

\* the rules of SemanticMatcher._parse_job_age for a string, each on its own,
\* in the order of the source
semantic_rules(posted) ==
    LET posted_lower == Strip(Lower(posted)) IN
    <<When(ContainsAny(posted_lower, <<"just", "now", "moment", "second", "few">>),
           Hours(0)),
      When(Contains(posted_lower, "minute"),
           Minutes(CountBefore(posted_lower, "minute", 0))),
      When(Contains(posted_lower, "hour"), Hours(CountBefore(posted_lower, "hour", 0))),
      When(Contains(posted_lower, "today"), Hours(6)),
      When(Contains(posted_lower, "yesterday"), Hours(30)),
      When(Contains(posted_lower, "day"), Hours(CountBefore(posted_lower, "day", 0) * 24)),
      When(Contains(posted_lower, "week"),
           Hours(CountBefore(posted_lower, "week", 1) * 7 * 24)),
      When(Contains(posted_lower, "month") \/ Contains(posted_lower, "year"), Inf),
      iso_date_rule(posted),
      unix_rule(posted),
      Applies(Hours(24))>>

\* the rules of parse_job_age_hours, each on its own, in the order of the
\* source: for a number the first rule alone, for a string the others
legacy_rules(value) ==
    IF value.type = "int"
    THEN <<Applies(IF fromtimestamp(ToDigits(value.num)).ok
                   THEN AgeSince(fromtimestamp(ToDigits(value.num)).minutes, 0)
                   ELSE Inf)>>
    ELSE LET posted == Strip(StrOf(value))
             posted_lower == Lower(posted)
         IN
         <<When(ContainsAny(posted_lower, <<"just", "now", "moment", "second">>),
                Hours(0)),
           When(Contains(posted_lower, "minute"),
                Minutes(CountBefore(posted_lower, "minute", 0))),
           When(Contains(posted_lower, "hour"),
                Hours(CountBefore(posted_lower, "hour", 0))),
           When(Contains(posted_lower, "today"), Hours(3)),
           When(Contains(posted_lower, "yesterday"), Hours(30)),
           When(Contains(posted_lower, "day") /\ Contains(posted_lower, "ago"),
                Hours(CountBefore(posted_lower, "day", 0) * 24)),
           When(Contains(posted_lower, "week"), Inf),
           When(Contains(posted_lower, "month"), Inf),
           legacy_iso_timezone_rule(posted),
           legacy_iso_date_rule(posted),
           legacy_unix_rule(posted),
           When(Contains(posted_lower, "recent"), Hours(3)),
           Applies(Hours(3))>>

\* the rules of the list that apply
Triggered(rules) == { k \in 1..Len(rules) : rules[k].applies }

\* the age the first rule that applies gives
FirstMatch(rules) ==
    rules[CHOOSE k \in Triggered(rules) : \A j \in Triggered(rules) : k <= j].age

(***************************************************************************)
(* The matcher (SemanticMatcher).                                          *)
(***************************************************************************)
WordChars == CharsOf(UpperLetters) \cup CharsOf(LowerLetters) \cup DigitChars \cup {"_"}

RECURSIVE RemoveTags(_)
\* re.sub(r'<[^>]+>', ' ', text)
RemoveTags(s) ==
    IF ~Contains(s, "<") THEN s
    ELSE LET start == Len(Before(s, "<")) + 1
             rest == SubSeq(s, start + 1, Len(s))
         IN IF Len(rest) >= 2 /\ Head(rest) # ">" /\ Contains(rest, ">")
            THEN SubSeq(s, 1, start - 1) \o " "
                   \o RemoveTags(SubSeq(rest, Len(Before(rest, ">")) + 2, Len(rest)))
            ELSE SubSeq(s, 1, start) \o RemoveTags(rest)

RECURSIVE RemoveSpecial(_)
\* re.sub(r'[^\w\s\-\+\#\.]', ' ', text)
RemoveSpecial(s) ==
    IF s = "" THEN ""
    ELSE IF Len(s) = 1
    THEN (IF s \in WordChars \cup Whitespace \cup {"-", "+", "#", "."} THEN s ELSE " ")
    ELSE LET half == Len(s) \div 2
         IN RemoveSpecial(SubSeq(s, 1, half)) \o RemoveSpecial(SubSeq(s, half + 1, Len(s)))

RECURSIVE CollapseRange(_, _, _)
\* what re.sub(r'\s+', ' ', s) makes of s[lo..hi]: a run of whitespace
\* becomes one space, written at the place of its first character
CollapseRange(s, lo, hi) ==
    IF lo > hi THEN ""
    ELSE IF lo = hi
    THEN (IF Char(s, lo) \notin Whitespace THEN Char(s, lo)
          ELSE IF lo > 1 /\ Char(s, lo - 1) \in Whitespace THEN "" ELSE " ")
    ELSE LET mid == (lo + hi) \div 2
         IN CollapseRange(s, lo, mid) \o CollapseRange(s, mid + 1, hi)

\* re.sub(r'\s+', ' ', text)
CollapseSpaces(s) == CollapseRange(s, 1, Len(s))

\* SemanticMatcher._clean_text
_clean_text(text) == Lower(Strip(CollapseSpaces(RemoveSpecial(RemoveTags(text)))))

EXCLUDE_KEYWORDS ==
    <<"sales", "salesperson", "business development", "bdr", "sdr",
      "account executive", "account manager", "customer success",
      "recruiter", "hr partner", "talent acquisition", "human resource",
      "marketing manager", "content writer", "copywriter",
      "graphic designer", "ui/ux designer", "product designer",
      "civil engineer", "mechanical engineer", "electrical engineer",
      "doctor", "nurse", "teacher", "professor", "chef", "driver",
      "accountant", "finance manager", "ca", "chartered accountant",
      "director", "vp", "vice president", "chief", "cto", "cdo", "ceo",
      "head of", "principal architect", "distinguished engineer">>

EXCLUDE_LOCATIONS ==
    <<"usa", "u.s.", "united states", "america", "canada",
      "uk", "united kingdom", "london", "europe", "germany",
      "australia", "singapore", "dubai", "uae", "philippines",
      "vietnam", "poland", "romania", "brazil", "mexico",
      "nigeria", "kenya", "south africa">>

\* INDIA_LOCATIONS[:11]
INDIA_LOCATIONS_11 ==
    <<"india", "pune", "mumbai", "bangalore", "bengaluru",
      "hyderabad", "chennai", "delhi", "ncr", "noida", "gurgaon">>

remote_keywords ==
    <<"remote", "work from home", "wfh", "anywhere", "worldwide",
      "global", "distributed", "fully remote", "remote-first", "apac">>

exclusion_patterns ==
    <<"us only", "usa only", "united states only",
      "europe only", "eu only", "uk only",
      "us-based", "us based", "must be in us",
      "canada only", "australia only">>

\* city_map, in the order of the dict
city_map ==
    <<<<"pune", "Pune">>, <<"mumbai", "Mumbai">>, <<"bangalore", "Bangalore">>,
      <<"bengaluru", "Bangalore">>, <<"hyderabad", "Hyderabad">>,
      <<"chennai", "Chennai">>, <<"delhi", "Delhi">>, <<"noida", "Noida">>,
      <<"gurgaon", "Gurgaon">>, <<"gurugram", "Gurgaon">>, <<"kolkata", "Kolkata">>>>

\* a variant of the decision in which an exclusion phrase without a place in
\* India decides against the target region
is_india_decision_exclusion_blocks(india_explicit, is_remote, has_exclusion, no_location_info, has_explicit_other) ==
    IF india_explicit THEN TRUE
    ELSE IF has_exclusion THEN FALSE
    ELSE IF is_remote THEN TRUE
    ELSE IF no_location_info THEN TRUE
    ELSE ~has_explicit_other

\* a variant of the decision that asks for a place in India in the text
is_india_decision_explicit_only(india_explicit, is_remote, has_exclusion, no_location_info, has_explicit_other) ==
    india_explicit

\* the decision of _check_location_india from what it found in the text
is_india_decision(india_explicit, is_remote, has_exclusion, no_location_info, has_explicit_other) ==
    IF india_explicit THEN TRUE
    ELSE IF is_remote /\ ~has_exclusion THEN TRUE
    ELSE IF no_location_info THEN TRUE
    ELSE IF has_explicit_other /\ ~is_remote THEN FALSE
    ELSE is_remote \/ ~has_explicit_other

\* SemanticMatcher._check_location_india
_check_location_india(location, description) ==
    LET combined == Lower(location \o " " \o description)
        is_remote == ContainsAny(combined, remote_keywords)
        india_explicit == ContainsAny(combined, INDIA_LOCATIONS_11)
        has_exclusion == ContainsAny(combined, exclusion_patterns)
        has_explicit_other == ContainsAny(combined, EXCLUDE_LOCATIONS)
        location_clean == Lower(Strip(location))
        no_location_info ==
            location_clean \in {"", "unknown", "n/a", "not specified", "tbd"}
        cities == { k \in 1..Len(city_map) : Contains(combined, city_map[k][1]) }
    IN [is_india |-> is_india_decision(india_explicit, is_remote, has_exclusion,
                                       no_location_info, has_explicit_other),
        is_remote |-> is_remote,
        city |-> IF cities = {} THEN "None"
                 ELSE city_map[CHOOSE k \in cities : \A j \in cities : k <= j][2]]

title_keywords ==
    <<"data", "analyst", "scientist", "ml", "machine learning",
      "ai", "intelligence", "analytics", "bi", "engineer", "python">>

\* a variant of _check_title_relevance without the loop over EXCLUDE_KEYWORDS
_check_title_relevance_required_only(title) ==
    IF ~ContainsAny(Lower(title), title_keywords)
    THEN [is_relevant |-> FALSE, penalty |-> -((3 * One) \div 10)]
    ELSE [is_relevant |-> TRUE, penalty |-> 0]

\* SemanticMatcher._check_title_relevance: (is_relevant, penalty_score)
_check_title_relevance(title) ==
    LET title_lower == Lower(title) IN
    IF ContainsAny(title_lower, EXCLUDE_KEYWORDS)
    THEN [is_relevant |-> FALSE, penalty |-> -(One \div 2)]
    ELSE IF ~ContainsAny(title_lower, title_keywords)
    THEN [is_relevant |-> FALSE, penalty |-> -((3 * One) \div 10)]
    ELSE [is_relevant |-> TRUE, penalty |-> 0]

\* keywords of _calculate_keyword_score, with their weights in hundredths
keywords ==
    <<<<"data scientist", 10>>, <<"data analyst", 10>>, <<"machine learning", 10>>,
      <<"deep learning", 10>>, <<"ml engineer", 10>>, <<"nlp", 8>>,
      <<"power bi", 8>>, <<"tableau", 8>>, <<"pytorch", 8>>,
      <<"tensorflow", 8>>, <<"scikit-learn", 7>>, <<"xgboost", 7>>,
      <<"python", 5>>, <<"sql", 5>>, <<"pandas", 5>>, <<"numpy", 5>>,
      <<"statistics", 5>>, <<"regression", 5>>, <<"classification", 5>>,
      <<"neural network", 5>>, <<"transformer", 5>>, <<"bert", 5>>,
      <<"gpt", 5>>, <<"llm", 5>>, <<"rag", 5>>,
      <<"airflow", 5>>, <<"spark", 5>>, <<"aws", 5>>, <<"azure", 5>>,
      <<"docker", 5>>, <<"mlops", 5>>, <<"model deployment", 5>>,
      <<"excel", 3>>, <<"dashboard", 3>>, <<"visualization", 3>>,
      <<"etl", 3>>, <<"data pipeline", 3>>, <<"jupyter", 3>>,
      <<"git", 3>>, <<"api", 3>>, <<"fastapi", 3>>>>

RECURSIVE keyword_sum(_, _)
\* score after the loop over keywords[k..], in hundredths
keyword_sum(text_lower, k) ==
    IF k > Len(keywords) THEN 0
    ELSE (IF Contains(text_lower, keywords[k][1]) THEN keywords[k][2] ELSE 0)
         + keyword_sum(text_lower, k + 1)

\* SemanticMatcher._calculate_keyword_score
_calculate_keyword_score(text) ==
    LET score == keyword_sum(Lower(text), 1) * (One \div 100)
    IN IF score <= One THEN score ELSE One

\* round(x, 4): the nearest multiple of a ten-thousandth, a tie to the even one
Round4(x) ==
    LET q == x \div 100
        r == x - q * 100
    IN IF r < 50 \/ (r = 50 /\ q % 2 = 0) THEN q * 100 ELSE (q + 1) * 100

\* semantic_score of match_job: the larger cosine similarity to the profile
\* texts (0.0 for a profile without embedding), or 0.8 of the keyword score
\* when there is no embedding
semantic_score_of(job_text, embedding, profiles, keyword_score) ==
    IF Len(job_text) > 50
    THEN IF embedding.kind = "ok"
         THEN LET ds_score == IF "data_science" \in profiles THEN embedding.ds ELSE 0
                  da_score == IF "data_analytics" \in profiles THEN embedding.da ELSE 0
              IN IF ds_score >= da_score THEN ds_score ELSE da_score
         ELSE (keyword_score * 8) \div 10
    ELSE 0

\* combined_score of match_job after the title penalty and before the
\* location penalty
penalised_score_of(semantic_score, keyword_score, relevance) ==
    LET weighted == (semantic_score * 6) \div 10 + (keyword_score * 4) \div 10
    IN IF ~relevance.is_relevant
       THEN (IF weighted + relevance.penalty > 0
             THEN weighted + relevance.penalty ELSE 0)
       ELSE weighted

\* a variant of combined_score_of without the penalty for a job outside India
combined_score_of_no_discount(semantic_score, keyword_score, relevance, is_india) ==
    penalised_score_of(semantic_score, keyword_score, relevance)

\* combined_score of match_job before it is rounded
combined_score_of(semantic_score, keyword_score, relevance, is_india) ==
    LET penalised == penalised_score_of(semantic_score, keyword_score, relevance)
    IN IF ~is_india THEN (penalised * 3) \div 10 ELSE penalised

\* a variant of the status decision that does not look at the age
MatchStatus_ignores_age(is_india, is_title_relevant, is_fresh, combined_score) ==
    IF ~is_india THEN "filtered"
    ELSE IF ~is_title_relevant THEN "filtered"
    ELSE IF combined_score < MinScore THEN "filtered"
    ELSE "detected"

\* the status decision of SemanticMatcher.match_job
MatchStatus(is_india, is_title_relevant, is_fresh, combined_score) ==
    IF ~is_india THEN "filtered"
    ELSE IF ~is_title_relevant THEN "filtered"
    ELSE IF ~is_fresh THEN "filtered"
    ELSE IF combined_score < MinScore THEN "filtered"
    ELSE "detected"

\* what match_job computes of a job without its embedding: the cleaned text,
\* the age, the title relevance, the location and the keyword score
job_locals(job) ==
    LET job_text == _clean_text(job.title) \o " " \o _clean_text(job.description)
    IN [job_text |-> job_text,
        age_hours |-> _parse_job_age(job.posted),
        relevance |-> _check_title_relevance(job.title),
        place |-> _check_location_india(job.location, job.description),
        keyword_score |-> _calculate_keyword_score(job_text)]

\* the rest of match_job: the scores, the status and the ProcessedJob
match_job_with(job, profiles, locals) ==
    LET semantic_score == semantic_score_of(locals.job_text, job.embedding, profiles,
                                            locals.keyword_score)
        combined_score == combined_score_of(semantic_score, locals.keyword_score,
                                            locals.relevance, locals.place.is_india)
        is_fresh == AgeAtMost(locals.age_hours, max_job_age_hours)
    IN [job_id |-> job_id(job), title |-> job.title, description |-> job.description,
        status |-> MatchStatus(locals.place.is_india, locals.relevance.is_relevant,
                               is_fresh, combined_score),
        semantic_score |-> Round4(semantic_score),
        keyword_score |-> Round4(locals.keyword_score),
        combined_score |-> Round4(combined_score),
        is_india |-> locals.place.is_india, is_remote |-> locals.place.is_remote,
        city |-> locals.place.city, age_hours |-> locals.age_hours]

\* SemanticMatcher.match_job of a matcher whose _profile_embeddings holds
\* profiles; an exception of _parse_job_age leaves match_job
match_job_for(job, profiles) == match_job_with(job, profiles, job_locals(job))

\* match_job for each posting a site lists, computed once
ListedMatched ==
    [job \in AllPostings, profiles \in SUBSET Profiles |-> match_job_for(job, profiles)]

\* SemanticMatcher.match_job
match_job(job) ==
    IF job \in AllPostings THEN ListedMatched[job, profile_embeddings]
    ELSE match_job_for(job, profile_embeddings)

\* SemanticMatcher.match_jobs: a job whose match_job raises is skipped
match_jobs(jobs) ==
    SelectSeq([i \in 1..Len(jobs) |-> match_job(jobs[i])],
              LAMBDA job : job.age_hours # Raised)

(***************************************************************************)
(* Regular expressions (module re), as far as the patterns of the          *)
(* experience filter use them.  Ends(re, s, i) is the set of positions     *)
(* after a match of re that starts at position i of s.                     *)
(***************************************************************************)
ReLit(text) == [k |-> "lit", s |-> text]

ReSet(chars) == [k |-> "set", set |-> chars]

\* .
ReAny == [k |-> "any"]

\* \b
ReWordB == [k |-> "wordb"]

ReSeq(parts) == [k |-> "seq", parts |-> parts]

ReAlt(parts) == [k |-> "alt", parts |-> parts]

\* r?
ReOpt(r) == [k |-> "opt", r |-> r]

\* r*
ReStar(r) == [k |-> "star", r |-> r]

\* r+
RePlus(r) == ReSeq(<<r, ReStar(r)>>)

\* \s
ReSpace == ReSet(Whitespace)

IsWordAt(s, i) == i >= 1 /\ i <= Len(s) /\ Char(s, i) \in WordChars

RECURSIVE Ends(_, _, _)
RECURSIVE SeqEnds(_, _, _, _)
RECURSIVE StarEnds(_, _, _)

Ends(re, s, i) ==
    CASE re.k = "lit" ->
           IF i + Len(re.s) - 1 <= Len(s) /\ SubSeq(s, i, i + Len(re.s) - 1) = re.s
           THEN {i + Len(re.s)} ELSE {}
      [] re.k = "set" -> IF i <= Len(s) /\ Char(s, i) \in re.set THEN {i + 1} ELSE {}
      [] re.k = "any" -> IF i <= Len(s) /\ Char(s, i) # "\n" THEN {i + 1} ELSE {}
      [] re.k = "wordb" -> IF IsWordAt(s, i - 1) # IsWordAt(s, i) THEN {i} ELSE {}
      [] re.k = "seq" -> SeqEnds(re.parts, 1, s, {i})
      [] re.k = "alt" -> UNION { Ends(re.parts[n], s, i) : n \in 1..Len(re.parts) }
      [] re.k = "opt" -> {i} \cup Ends(re.r, s, i)
      [] re.k = "star" -> StarEnds(re.r, s, {i})

\* the ends of parts[n..] started at any position of from
SeqEnds(parts, n, s, from) ==
    IF n > Len(parts) \/ from = {} THEN from
    ELSE SeqEnds(parts, n + 1, s, UNION { Ends(parts[n], s, j) : j \in from })

\* the ends of any number of matches of r started at any position of from
StarEnds(r, s, from) ==
    LET more == from \cup UNION { Ends(r, s, j) : j \in from }
    IN IF more = from THEN from ELSE StarEnds(r, s, more)

\* re.search(pattern, text) finds a match
Search(re, s) == \E i \in 1..(Len(s) + 1) : Ends(re, s, i) # {}

(***************************************************************************)
(* The quick experience filter (QuickExperienceFilter).                    *)
(***************************************************************************)
\* (?:years?|yrs?)
YearsUnit ==
    ReAlt(<<ReSeq(<<ReLit("year"), ReOpt(ReLit("s"))>>),
            ReSeq(<<ReLit("yr"), ReOpt(ReLit("s"))>>)>>)

SENIOR_PATTERNS ==
    <<ReSeq(<<ReWordB,
              ReAlt(<<ReLit("principal"),
                      ReSeq(<<ReLit("staff"), RePlus(ReSpace), ReLit("engineer")>>),
                      ReLit("architect")>>),
              ReWordB>>),
      ReSeq(<<ReWordB,
              ReAlt(<<ReLit("director"), ReLit("vp"), ReLit("vice president"),
                      ReLit("head of")>>),
              ReWordB>>),
      ReSeq(<<ReWordB,
              ReAlt(<<ReLit("10+"), ReLit("12+"), ReLit("15+"), ReLit("20+")>>),
              ReStar(ReSpace), YearsUnit, ReWordB>>)>>

JUNIOR_PATTERNS ==
    <<ReSeq(<<ReWordB,
              ReAlt(<<ReLit("junior"),
                      ReSeq(<<ReLit("jr"), ReOpt(ReLit("."))>>),
                      ReSeq(<<ReLit("entry"), ReOpt(ReAny), ReLit("level")>>),
                      ReLit("fresher"), ReLit("graduate")>>),
              ReWordB>>),
      ReSeq(<<ReWordB,
              ReAlt(<<ReSeq(<<ReLit("0-"), ReSet({"0", "1", "2", "3", "4", "5"})>>),
                      ReSeq(<<ReSet({"0", "1", "2", "3"}), ReStar(ReSpace),
                              ReAlt(<<ReLit("+"), ReLit("to"), ReLit("-")>>),
                              ReStar(ReSpace),
                              ReSet({"0", "1", "2", "3", "4", "5"})>>)>>),
              ReStar(ReSpace), YearsUnit, ReWordB>>),
      ReSeq(<<ReWordB, ReLit("no"), ReOpt(ReAny), ReLit("experience"), ReOpt(ReAny),
              ReLit("required"), ReWordB>>),
      ReSeq(<<ReWordB, ReLit("fresher"), ReOpt(ReLit("s")), ReOpt(ReAny),
              ReLit("welcome"), ReWordB>>),
      ReSeq(<<ReWordB, ReLit("early"), ReOpt(ReAny), ReLit("career"), ReWordB>>)>>

\* what follows the digits in exp_pattern: \s*(?:\+)?\s*(?:years?|yrs?)
AfterYears ==
    ReSeq(<<ReStar(ReSpace), ReOpt(ReLit("+")), ReStar(ReSpace), YearsUnit>>)

RECURSIVE DigitRunEnd(_, _)
\* the last position of the run of digits that holds position i
DigitRunEnd(text, i) ==
    IF i < Len(text) /\ Char(text, i + 1) \in DigitChars THEN DigitRunEnd(text, i + 1)
    ELSE i

\* re.findall(exp_pattern, text) as numbers: every run of digits that a
\* number of years follows
ExperienceYears(text) ==
    { ToInt(SubSeq(text, i, DigitRunEnd(text, i))) :
        i \in { n \in 1..Len(text) :
                  /\ Char(text, n) \in DigitChars
                  /\ ~(n > 1 /\ Char(text, n - 1) \in DigitChars)
                  /\ Ends(AfterYears, text, DigitRunEnd(text, n) + 1) # {} } }

\* QuickExperienceFilter.check_experience: (is_suitable, reason)
check_experience(title, description) ==
    LET title_lower == Lower(title)
        text == Lower(title \o " " \o description)
    IN IF \E n \in 1..Len(SENIOR_PATTERNS) : Search(SENIOR_PATTERNS[n], title_lower)
       THEN [suitable |-> FALSE, reason |-> "Senior role"]
       ELSE IF \E n \in 1..Len(JUNIOR_PATTERNS) : Search(JUNIOR_PATTERNS[n], text)
       THEN [suitable |-> TRUE, reason |-> "Junior-friendly"]
       ELSE IF \E min_exp \in ExperienceYears(text) : min_exp >= 8
       THEN [suitable |-> FALSE, reason |-> "Requires years experience"]
       ELSE [suitable |-> TRUE, reason |-> "No clear senior requirement found"]



RECURSIVE IdxWhere(_, _)
\* [i for i in k..len(flags) if flags[i]]
IdxWhere(flags, k) ==
    IF k > Len(flags) THEN <<>>
    ELSE (IF flags[k] THEN <<k>> ELSE <<>>) \o IdxWhere(flags, k + 1)

RECURSIVE InsertDesc(_, _, _)
\* insert index i into idxs, sorted by combined_score descending, after equals
InsertDesc(i, idxs, jobs) ==
    IF idxs = <<>> THEN <<i>>
    ELSE IF jobs[Head(idxs)].combined_score >= jobs[i].combined_score
    THEN <<Head(idxs)>> \o InsertDesc(i, Tail(idxs), jobs)
    ELSE <<i>> \o idxs

RECURSIVE SortDesc(_, _)
\* list.sort(key=combined_score, reverse=True): stable
SortDesc(idxs, jobs) ==
    IF idxs = <<>> THEN <<>>
    ELSE InsertDesc(idxs[Len(idxs)], SortDesc(SubSeq(idxs, 1, Len(idxs) - 1), jobs), jobs)

\* limit of get_top_matches in run
TopLimit == 15

\* the jobs of the target region at or above the threshold, whatever their
\* status, sorted
RelevantSorted_any_status(jobs) ==
    SortDesc(IdxWhere([i \in 1..Len(jobs) |-> /\ jobs[i].is_india
                                              /\ jobs[i].combined_score >= MinScore],
                      1),
             jobs)

\* relevant of JobWatchdog.get_top_matches, sorted
RelevantSorted(jobs) ==
    SortDesc(IdxWhere([i \in 1..Len(jobs) |-> /\ jobs[i].status = "detected"
                                              /\ jobs[i].is_india
                                              /\ jobs[i].combined_score >= MinScore],
                      1),
             jobs)

Min(a, b) == IF a <= b THEN a ELSE b

RECURSIVE CountTrue(_)
CountTrue(bs) == IF bs = <<>> THEN 0
                 ELSE (IF Head(bs) THEN 1 ELSE 0) + CountTrue(Tail(bs))

RECURSIVE Flatten(_)
Flatten(ss) == IF ss = <<>> THEN <<>> ELSE Head(ss) \o Flatten(Tail(ss))

Range(f) == { f[x] : x \in DOMAIN f }

(***************************************************************************)
(* The store (JobDatabase).                                                *)
(***************************************************************************)
\* JobDatabase.get_known_job_ids
get_known_job_ids(jobs_table) == DOMAIN jobs_table

\* JobDatabase.get_notified_job_ids
get_notified_job_ids(jobs_table) ==
    { id \in DOMAIN jobs_table : jobs_table[id].status = "notified" }

\* an insert_jobs_batch whose transaction is never committed
insert_rows_not_committed(jobs_table, jobs) == jobs_table

\* the rows insert_jobs_batch writes when no INSERT raises
insert_rows(jobs_table, jobs) ==
    LET known == get_known_job_ids(jobs_table)
        new == { i \in 1..Len(jobs) : jobs[i].job_id \notin known }
        ids == { jobs[i].job_id : i \in new }
    IN [id \in DOMAIN jobs_table \cup ids |->
           IF id \in DOMAIN jobs_table THEN jobs_table[id]
           ELSE LET i == CHOOSE k \in new :
                             /\ jobs[k].job_id = id
                             /\ \A m \in new : jobs[m].job_id = id => k <= m
                IN [status |-> jobs[i].status, age |-> 0]]

\* JobDatabase.update_job_status
update_job_status(jobs_table, id, status) ==
    [x \in DOMAIN jobs_table |->
        IF x = id THEN [jobs_table[x] EXCEPT !.status = status] ELSE jobs_table[x]]

\* a sweep that deletes every old row, whatever its status
cleanup_rows_any_status(jobs_table, days) ==
    LET keep == { id \in DOMAIN jobs_table : jobs_table[id].age <= days }
    IN [id \in keep |-> jobs_table[id]]

\* the rows cleanup_old_jobs(days) keeps: fetched_at < now - days is
\* age > days
cleanup_rows(jobs_table, days) ==
    LET keep == { id \in DOMAIN jobs_table :
                    ~(/\ jobs_table[id].age > days
                      /\ jobs_table[id].status \in {"detected", "filtered"}) }
    IN [id \in keep |-> jobs_table[id]]

\* the row save_scan_stats inserts
scan_row(st) ==
    [completed_at |-> st.completed_at, total_fetched |-> st.total_fetched,
     total_new |-> st.total_new, total_matched |-> st.total_matched,
     total_notified |-> st.total_notified, errors |-> st.errors]

(***************************************************************************)
(* Initial state: an empty store, no run started.                          *)
(***************************************************************************)
\* each site lists some of its postings, in some order, each once
Feeds ==
    { f \in [SourceIdx -> SeqsUpTo(AllPostings, MaxBatch)] :
        \A s \in SourceIdx :
            /\ \A i \in 1..Len(f[s]) : f[s][i] \in PostingsOf(Sources[s])
            /\ \A i, j \in 1..Len(f[s]) : i # j => f[s][i] # f[s][j] }

EmptyTable == [id \in {} |-> 0]

\* the locals of an execution of fetch_jobs that has not started; issued and
\* counted are the requests it sent and the increments it made
IdleFetcher ==
    [pc |-> "idle", usage |-> 0, todo |-> 0, jobs |-> 0, error |-> "None",
     issued |-> 0, counted |-> 0, read |-> 0, read_month |-> 0]

QuotaIdle ==
    /\ api_usage = [m \in 1..MaxMonth |-> 0]
    /\ usage_file = [month |-> 0, count |-> 0]
    /\ month = 1
    /\ requests = [m \in 1..MaxMonth |-> 0]
    /\ fetcher = [f \in 1..MaxFetchers |-> IdleFetcher]

PipelineIdle ==
    /\ db_jobs = EmptyTable
    /\ scan_history = <<>>
    /\ scan_count = 0
    /\ deliveries = [id \in AllIds |-> 0]
    /\ pc = "idle"
    /\ runs = 0
    /\ telegram = FALSE
    /\ stats = NewScanStats
    /\ batches = [s \in SourceIdx |-> Pending]
    /\ raw_jobs = <<>>
    /\ known_ids = {}
    /\ new_jobs = <<>>
    /\ processed = <<>>
    /\ top_matches = <<>>
    /\ to_notify = <<>>
    /\ send_results = <<>>
    /\ insert_error = 0
    /\ last_run = NoRun
    /\ llm_todo = {}
    /\ llm_calls = EmptyTable

\* no posting is given to the functions on their own
NoSample == RawJob("", "", "", "", "", PyNone, NoEmbedding)

MatcherIdle ==
    /\ profile_embeddings = Profiles
    /\ sample = NoSample
    /\ applied = EmptyTable

\* the module globals of semantic.py after import (lines 20-22)
BackendIdle ==
    /\ _model = "None"
    /\ _model_failed = FALSE
    /\ _embeddings_cache = {}
    /\ embedding_calls = 0
    /\ load_attempts = 0
    /\ backend_failed = FALSE

\* the tasks of fetch_all_jobs
FetchTasks == 1..MaxSources

\* fetch_all_jobs is not running
FetchIdle ==
    /\ fetch_pc = [t \in FetchTasks |-> "idle"]
    /\ semaphore = [value |-> 0, waiters |-> <<>>]

\* RemoteOKSource.fetch_jobs is not running
NormalizerIdle ==
    /\ payload = <<>>
    /\ remoteok = [next |-> 1, jobs |-> <<>>, error |-> "None", done |-> TRUE]

\* main of job_watchdog.py is not running
LegacyIdle ==
    /\ listing = <<>>
    /\ legacy_main = [pc |-> "done", config |-> 1, all_jobs |-> <<>>,
                      new_matches |-> <<>>, next |-> 1, history |-> {},
                      telegram_ok |-> FALSE, sent |-> <<>>]

ComponentsIdle ==
    /\ BackendIdle
    /\ FetchIdle
    /\ NormalizerIdle
    /\ LegacyIdle

Init ==
    /\ feed \in Feeds
    /\ PipelineIdle
    /\ impl = "src"
    /\ QuotaIdle
    /\ MatcherIdle
    /\ ComponentsIdle

(***************************************************************************)
(* JobWatchdog.run, one action per step between its awaits.                *)
(***************************************************************************)
\* main(): JobWatchdog() and the start of run()
StartRun ==
    /\ pc = "idle"
    /\ runs < MaxRuns
    /\ runs' = runs + 1
    /\ telegram' \in BOOLEAN
    /\ pc' = "fetch"
    /\ UNCHANGED <<feed, db_jobs, scan_history, scan_count, deliveries, stats,
                   batches, raw_jobs, known_ids, new_jobs, processed, top_matches,
                   to_notify, send_results, insert_error, last_run>>
    /\ UNCHANGED <<llm_todo, llm_calls>>
    /\ UNCHANGED quota_vars
    /\ UNCHANGED matcher_vars
    /\ UNCHANGED component_vars

\* the process ends (run returned, or raised): its objects are gone; last_run
\* records what it fetched
Exit ==
    /\ pc \in {"returned", "crashed"}
    /\ pc' = "idle"
    /\ telegram' = FALSE
    /\ stats' = NewScanStats
    /\ batches' = [s \in SourceIdx |-> Pending]
    /\ raw_jobs' = <<>>
    /\ known_ids' = {}
    /\ new_jobs' = <<>>
    /\ processed' = <<>>
    /\ top_matches' = <<>>
    /\ to_notify' = <<>>
    /\ send_results' = <<>>
    /\ insert_error' = 0
    /\ scan_history' = <<>>
    /\ last_run' = IF pc = "returned" THEN [valid |-> TRUE, jobs |-> raw_jobs] ELSE NoRun
    /\ llm_todo' = {}
    /\ llm_calls' = EmptyTable
    /\ UNCHANGED <<feed, db_jobs, scan_count, deliveries, runs>>
    /\ UNCHANGED quota_vars
    /\ UNCHANGED matcher_vars
    /\ UNCHANGED component_vars

\* what source.fetch_jobs does: "ok" returns the listed postings, "error"
\* returns a batch with an error string (and the postings parsed before the
\* error, here all or none), "raise" raises
FetchOutcomes == {"ok", "error", "raise"}

\* the JobBatch _fetch_from_source returns
fetched_batch(listed, outcome, parsed) ==
    IF outcome = "ok" THEN [kind |-> "batch", jobs |-> listed, error |-> "None"]
    ELSE IF outcome = "error"
    THEN [kind |-> "batch", jobs |-> IF parsed THEN listed ELSE <<>>,
          error |-> "error"]
    ELSE [kind |-> "batch", jobs |-> <<>>, error |-> "exception"]

\* self.stats.errors.append(f"{source.name}: ...") of _fetch_from_source: an
\* entry is the name of the source; nothing is appended for close()
errors_appended(errors, src, batch, close_raises) ==
    IF batch.error # "None" THEN Append(errors, src) ELSE errors

\* what asyncio.gather holds for the task: the batch, or the exception
\* raised by source.close() in the finally clause
task_result(batch, close_raises) ==
    IF close_raises THEN [kind |-> "exception", jobs |-> <<>>, error |-> "close"]
    ELSE batch

\* _fetch_from_source for source s, run to completion
FetchFromSource(s) ==
    /\ pc = "fetch"
    /\ batches[s].kind = "pending"
    /\ \E outcome \in FetchOutcomes, parsed \in BOOLEAN, close_raises \in BOOLEAN :
         LET batch == fetched_batch(feed[s], outcome, parsed) IN
         /\ outcome # "error" => ~parsed
         /\ stats' = [stats EXCEPT !.errors =
                         errors_appended(@, Sources[s], batch, close_raises)]
         /\ batches' = [batches EXCEPT ![s] = task_result(batch, close_raises)]
    /\ UNCHANGED <<feed, db_jobs, scan_history, scan_count, deliveries, pc, runs, telegram,
                   raw_jobs, known_ids, new_jobs, processed, top_matches, to_notify,
                   send_results, insert_error, last_run>>
    /\ UNCHANGED <<llm_todo, llm_calls>>
    /\ UNCHANGED quota_vars
    /\ UNCHANGED matcher_vars
    /\ UNCHANGED component_vars

\* all_jobs of fetch_all_jobs
all_jobs(results) ==
    Flatten([s \in SourceIdx |->
                IF results[s].kind = "batch" THEN results[s].jobs ELSE <<>>])

\* fetch_all_jobs after asyncio.gather
Gather ==
    /\ pc = "fetch"
    /\ \A s \in SourceIdx : batches[s].kind # "pending"
    /\ raw_jobs' = all_jobs(batches)
    /\ stats' = [stats EXCEPT !.total_fetched = Len(all_jobs(batches))]
    /\ pc' = "dedup"
    /\ UNCHANGED <<feed, db_jobs, scan_history, scan_count, deliveries, runs, telegram,
                   batches, known_ids, new_jobs, processed, top_matches, to_notify,
                   send_results, insert_error, last_run>>
    /\ UNCHANGED <<llm_todo, llm_calls>>
    /\ UNCHANGED quota_vars
    /\ UNCHANGED matcher_vars
    /\ UNCHANGED component_vars

\* Phase 2 of run: deduplicate_jobs, and the early return (the task results
\* went with the frame of fetch_all_jobs)
Deduplicate ==
    /\ pc = "dedup"
    /\ batches' = [s \in SourceIdx |-> Pending]
    /\ known_ids' = get_known_job_ids(db_jobs)
    /\ new_jobs' = deduplicate_jobs(raw_jobs, get_known_job_ids(db_jobs))
    /\ IF new_jobs' = <<>>
       THEN /\ stats' = [stats EXCEPT !.total_new = 0, !.completed_at = "now"]
            /\ pc' = "returned"
       ELSE /\ stats' = [stats EXCEPT !.total_new = Len(new_jobs')]
            /\ pc' = "match"
    /\ UNCHANGED <<feed, db_jobs, scan_history, scan_count, deliveries, runs, telegram,
                   raw_jobs, processed, top_matches, to_notify,
                   send_results, insert_error, last_run>>
    /\ UNCHANGED <<llm_todo, llm_calls>>
    /\ UNCHANGED quota_vars
    /\ UNCHANGED matcher_vars
    /\ UNCHANGED component_vars

\* Phase 3 of run: process_jobs
ProcessJobs ==
    /\ pc = "match"
    /\ processed' = match_jobs(new_jobs)
    /\ pc' = "llm"
    /\ UNCHANGED <<feed, db_jobs, scan_history, scan_count, deliveries, runs, telegram,
                   stats, batches, raw_jobs, known_ids, new_jobs, top_matches,
                   to_notify, send_results, insert_error, last_run>>
    /\ UNCHANGED <<llm_todo, llm_calls>>
    /\ UNCHANGED quota_vars
    /\ UNCHANGED matcher_vars
    /\ UNCHANGED component_vars

\* settings.llm.enabled
LlmEnabled == TRUE

\* settings.llm.groq_api_key or settings.llm.ollama_url: ollama_url is set by
\* default
LlmConfigured == TRUE

\* processed_jobs with the jobs at the indices in S filtered
with_filtered(jobs, S) ==
    [i \in 1..Len(jobs) |-> IF i \in S THEN [jobs[i] EXCEPT !.status = "filtered"]
                            ELSE jobs[i]]

\* check_experience for each posting a site lists, computed once
ListedChecked ==
    [text \in { <<job.title, job.description>> : job \in AllPostings } |->
        check_experience(text[1], text[2])]

\* quick_filter.check_experience(job.title, job.description)
quick_check(job) ==
    IF <<job.title, job.description>> \in DOMAIN ListedChecked
    THEN ListedChecked[<<job.title, job.description>>]
    ELSE check_experience(job.title, job.description)

\* the jobs the quick filter of apply_llm_filter rejects
quick_rejected(jobs, relevant) == { i \in relevant : ~quick_check(jobs[i]).suitable }

\* relevant_jobs of filter_jobs_batch(remaining)
relevant_jobs(jobs, remaining) ==
    { i \in remaining : jobs[i].combined_score >= MinScore }

\* Phase 4 of run: apply_llm_filter up to the call of filter_jobs_batch
ApplyLLMFilter ==
    /\ pc = "llm"
    /\ LET relevant == { i \in 1..Len(processed) : processed[i].status = "detected" }
           quick == quick_rejected(processed, relevant)
           remaining == relevant \ quick
       IN IF relevant = {} \/ ~LlmEnabled
          THEN /\ pc' = "top"
               /\ UNCHANGED <<processed, stats, llm_todo>>
          ELSE /\ processed' = with_filtered(processed, quick)
               /\ stats' = [stats EXCEPT !.total_filtered_llm = @ + Cardinality(quick)]
               /\ IF remaining # {} /\ LlmEnabled /\ LlmConfigured
                  THEN /\ llm_todo' = relevant_jobs(processed, remaining)
                       /\ pc' = "llm_batch"
                  ELSE /\ pc' = "top"
                       /\ UNCHANGED llm_todo
    /\ UNCHANGED <<feed, db_jobs, scan_history, scan_count, deliveries, runs, telegram,
                   batches, raw_jobs, known_ids, new_jobs, top_matches,
                   to_notify, send_results, insert_error, last_run, llm_calls>>
    /\ UNCHANGED quota_vars
    /\ UNCHANGED matcher_vars
    /\ UNCHANGED component_vars

\* how a call of LLMFilter.filter_job can end: the request raises (a timeout,
\* a connection error), the provider call returns None (no API key, a status
\* other than 200), the content is empty, the content is not JSON, or the
\* answer says suitable_for_junior true or false
LlmOutcomes == {"raises", "none", "empty", "unparseable", "suitable", "unsuitable"}

\* a variant of filter_job that rejects the job when the provider gave no
\* usable answer
filter_job_rejects_on_failure(outcome) ==
    IF outcome = "raises" THEN [kind |-> "exception", suitable |-> FALSE]
    ELSE [kind |-> "result", suitable |-> (outcome = "suitable")]

\* LLMFilter.filter_job: the LLMFilterResult, or the exception
filter_job(outcome) ==
    IF outcome = "raises" THEN [kind |-> "exception", suitable |-> FALSE]
    ELSE IF outcome \in {"none", "empty"} THEN [kind |-> "result", suitable |-> TRUE]
    ELSE IF outcome = "unparseable" THEN [kind |-> "result", suitable |-> TRUE]
    ELSE [kind |-> "result", suitable |-> (outcome = "suitable")]

\* filtered_results of filter_jobs_batch for the result of one task
filtered_result(result) ==
    IF result.kind = "exception" THEN [kind |-> "result", suitable |-> TRUE]
    ELSE result

\* one task of filter_jobs_batch: filter_job for the job at index i
FilterJob(i) ==
    /\ pc = "llm_batch"
    /\ i \in llm_todo \ DOMAIN llm_calls
    /\ \E outcome \in LlmOutcomes :
         llm_calls' = [j \in DOMAIN llm_calls \cup {i} |->
                          IF j = i THEN outcome ELSE llm_calls[j]]
    /\ UNCHANGED <<feed, db_jobs, scan_history, scan_count, deliveries, pc, runs,
                   telegram, stats, batches, raw_jobs, known_ids, new_jobs, processed,
                   top_matches, to_notify, send_results, insert_error, last_run,
                   llm_todo>>
    /\ UNCHANGED quota_vars
    /\ UNCHANGED matcher_vars
    /\ UNCHANGED component_vars

\* the jobs apply_llm_filter filters after filter_jobs_batch: none when the
\* batch call raised
llm_rejected(todo, calls, batch_raises) ==
    IF batch_raises THEN {}
    ELSE { i \in todo : ~filtered_result(filter_job(calls[i])).suitable }

\* apply_llm_filter after filter_jobs_batch: the results are applied, or the
\* exception of the batch call is logged
ApplyLLMResults ==
    /\ pc = "llm_batch"
    /\ DOMAIN llm_calls = llm_todo
    /\ \E batch_raises \in BOOLEAN :
         LET rejected == llm_rejected(llm_todo, llm_calls, batch_raises) IN
         /\ processed' = with_filtered(processed, rejected)
         /\ stats' = [stats EXCEPT !.total_filtered_llm = @ + Cardinality(rejected)]
    /\ llm_todo' = {}
    /\ llm_calls' = EmptyTable
    /\ pc' = "top"
    /\ UNCHANGED <<feed, db_jobs, scan_history, scan_count, deliveries, runs, telegram,
                   batches, raw_jobs, known_ids, new_jobs, top_matches,
                   to_notify, send_results, insert_error, last_run>>
    /\ UNCHANGED quota_vars
    /\ UNCHANGED matcher_vars
    /\ UNCHANGED component_vars

\* Phase 5 of run: get_top_matches(processed_jobs, limit=15)
GetTopMatches ==
    /\ pc = "top"
    /\ LET relevant == RelevantSorted(processed) IN
       /\ stats' = [stats EXCEPT !.total_matched = Len(relevant)]
       /\ top_matches' = SubSeq(relevant, 1, Min(TopLimit, Len(relevant)))
    /\ pc' = "save"
    /\ UNCHANGED <<feed, db_jobs, scan_history, scan_count, deliveries, runs, telegram,
                   batches, raw_jobs, known_ids, new_jobs, processed,
                   to_notify, send_results, insert_error, last_run>>
    /\ UNCHANGED <<llm_todo, llm_calls>>
    /\ UNCHANGED quota_vars
    /\ UNCHANGED matcher_vars
    /\ UNCHANGED component_vars

\* Phase 6 of run: db.insert_jobs_batch(processed_jobs).  All INSERTs run in
\* one connection: either all are committed, or the one at index failed raises,
\* _get_connection rolls the transaction back and re-raises, and run() ends
\* with that exception.
InsertJobsBatch ==
    /\ pc = "save"
    /\ \E failed \in 0..Len(processed) :
         IF failed = 0
         THEN /\ db_jobs' = insert_rows(db_jobs, processed)
              /\ pc' = "notify"
              /\ UNCHANGED insert_error
         ELSE /\ processed[failed].job_id \notin get_known_job_ids(db_jobs)
              /\ insert_error' = failed
              /\ pc' = "crashed"
              /\ UNCHANGED db_jobs
    /\ UNCHANGED <<feed, scan_history, scan_count, deliveries, runs, telegram, stats,
                   batches, raw_jobs, known_ids, new_jobs, processed, top_matches,
                   to_notify, send_results, last_run>>
    /\ UNCHANGED <<llm_todo, llm_calls>>
    /\ UNCHANGED quota_vars
    /\ UNCHANGED matcher_vars
    /\ UNCHANGED component_vars

\* jobs_to_notify of send_notifications
jobs_to_notify(jobs, top, jobs_table) ==
    LET already_notified == get_notified_job_ids(jobs_table)
    IN SelectSeq(top, LAMBDA i : jobs[i].job_id \notin already_notified)

\* Phase 7 of run: send_notifications up to the first send
SendNotifications ==
    /\ pc = "notify"
    /\ LET todo == jobs_to_notify(processed, top_matches, db_jobs) IN
       IF top_matches = <<>> \/ todo = <<>> \/ ~telegram
       THEN /\ pc' = "summary"
            /\ UNCHANGED to_notify
       ELSE /\ pc' = "sending"
            /\ to_notify' = todo
    /\ UNCHANGED <<feed, db_jobs, scan_history, scan_count, deliveries, runs, telegram,
                   stats, batches, raw_jobs, known_ids, new_jobs, processed,
                   top_matches, send_results, insert_error, last_run>>
    /\ UNCHANGED <<llm_todo, llm_calls>>
    /\ UNCHANGED quota_vars
    /\ UNCHANGED matcher_vars
    /\ UNCHANGED component_vars

\* one iteration of TelegramNotifier.send_jobs_batch: send_job returns ok
SendJob ==
    /\ pc = "sending"
    /\ Len(send_results) < Len(to_notify)
    /\ \E ok \in BOOLEAN :
         LET id == processed[to_notify[Len(send_results) + 1]].job_id IN
         /\ send_results' = Append(send_results, ok)
         /\ deliveries' = IF ok THEN [deliveries EXCEPT ![id] = @ + 1] ELSE deliveries
    /\ UNCHANGED <<feed, db_jobs, scan_history, scan_count, pc, runs, telegram, stats,
                   batches, raw_jobs, known_ids, new_jobs, processed, top_matches,
                   to_notify, insert_error, last_run>>
    /\ UNCHANGED <<llm_todo, llm_calls>>
    /\ UNCHANGED quota_vars
    /\ UNCHANGED matcher_vars
    /\ UNCHANGED component_vars

\* the indices of the postings whose send succeeded
marked_notified_if_sent(todo, results) ==
    { todo[k] : k \in { j \in 1..Len(todo) : results[j] } }

\* the indices send_notifications marks as notified: jobs_to_notify[:sent]
marked_notified(todo, results) ==
    { todo[k] : k \in 1..CountTrue(results) }

RECURSIVE update_all(_, _, _)
\* db.update_job_status(job.job_id, JobStatus.NOTIFIED) for each id of ids
update_all(jobs_table, ids, status) ==
    IF ids = {} THEN jobs_table
    ELSE LET id == CHOOSE x \in ids : TRUE
         IN update_all(update_job_status(jobs_table, id, status), ids \ {id}, status)

\* send_notifications after send_jobs_batch returned
MarkNotified ==
    /\ pc = "sending"
    /\ Len(send_results) = Len(to_notify)
    /\ LET marked == marked_notified(to_notify, send_results) IN
       /\ stats' = [stats EXCEPT !.total_notified = CountTrue(send_results)]
       /\ processed' = [i \in 1..Len(processed) |->
                           IF i \in marked
                           THEN [processed[i] EXCEPT !.status = "notified"]
                           ELSE processed[i]]
       /\ db_jobs' = update_all(db_jobs, { processed[i].job_id : i \in marked },
                                "notified")
    /\ pc' = "summary"
    /\ UNCHANGED <<feed, scan_history, scan_count, deliveries, runs, telegram, batches,
                   raw_jobs, known_ids, new_jobs, top_matches, to_notify,
                   send_results, insert_error, last_run>>
    /\ UNCHANGED <<llm_todo, llm_calls>>
    /\ UNCHANGED quota_vars
    /\ UNCHANGED matcher_vars
    /\ UNCHANGED component_vars

\* the end of run: completed_at, save_scan_stats, return
Summary ==
    /\ pc = "summary"
    /\ stats' = [stats EXCEPT !.completed_at = "now"]
    /\ scan_history' = Append(scan_history, scan_row(stats'))
    /\ scan_count' = scan_count + 1
    /\ pc' = "returned"
    /\ UNCHANGED <<feed, db_jobs, deliveries, runs, telegram, batches,
                   raw_jobs, known_ids, new_jobs, processed, top_matches,
                   to_notify, send_results, insert_error, last_run>>
    /\ UNCHANGED <<llm_todo, llm_calls>>
    /\ UNCHANGED quota_vars
    /\ UNCHANGED matcher_vars
    /\ UNCHANGED component_vars

(***************************************************************************)
(* Between runs: time passes, and the retention sweep.                     *)
(***************************************************************************)
\* a day passes
Tick ==
    /\ pc = "idle"
    /\ \E id \in DOMAIN db_jobs : db_jobs[id].age <= MaxDays
    /\ db_jobs' = [id \in DOMAIN db_jobs |->
                      [db_jobs[id] EXCEPT !.age = Min(@ + 1, MaxDays + 1)]]
    /\ UNCHANGED <<feed, scan_history, scan_count, deliveries, pc, runs, telegram,
                   stats, batches, raw_jobs, known_ids, new_jobs, processed,
                   top_matches, to_notify, send_results, insert_error, last_run>>
    /\ UNCHANGED <<llm_todo, llm_calls>>
    /\ UNCHANGED quota_vars
    /\ UNCHANGED matcher_vars
    /\ UNCHANGED component_vars

\* JobDatabase.cleanup_old_jobs(days)
CleanupOldJobs ==
    /\ pc = "idle"
    /\ \E days \in 1..MaxDays :
         db_jobs' = cleanup_rows(db_jobs, days)
    /\ last_run' = NoRun
    /\ UNCHANGED <<feed, scan_history, scan_count, deliveries, pc, runs, telegram,
                   stats, batches, raw_jobs, known_ids, new_jobs, processed,
                   top_matches, to_notify, send_results, insert_error>>
    /\ UNCHANGED <<llm_todo, llm_calls>>
    /\ UNCHANGED quota_vars
    /\ UNCHANGED matcher_vars
    /\ UNCHANGED component_vars

Next ==
    \/ StartRun
    \/ Exit
    \/ \E s \in SourceIdx : FetchFromSource(s)
    \/ Gather
    \/ Deduplicate
    \/ ProcessJobs
    \/ ApplyLLMFilter
    \/ \E i \in 1..Len(processed) : FilterJob(i)
    \/ ApplyLLMResults
    \/ GetTopMatches
    \/ InsertJobsBatch
    \/ SendNotifications
    \/ SendJob
    \/ MarkNotified
    \/ Summary
    \/ Tick
    \/ CleanupOldJobs

Spec == Init /\ [][Next]_vars

(***************************************************************************)
(* Runs that are interrupted and started again on the same store, with no  *)
(* retention sweep in between.                                             *)
(***************************************************************************)
\* the process is killed during or after send_jobs_batch, once a posting was
\* handed to the channel: its objects are gone, table jobs stays as committed
Interrupt ==
    /\ pc \in {"sending", "summary"}
    /\ send_results # <<>>
    /\ pc' = "idle"
    /\ telegram' = FALSE
    /\ stats' = NewScanStats
    /\ batches' = [s \in SourceIdx |-> Pending]
    /\ raw_jobs' = <<>>
    /\ known_ids' = {}
    /\ new_jobs' = <<>>
    /\ processed' = <<>>
    /\ top_matches' = <<>>
    /\ to_notify' = <<>>
    /\ send_results' = <<>>
    /\ insert_error' = 0
    /\ scan_history' = <<>>
    /\ last_run' = NoRun
    /\ llm_todo' = {}
    /\ llm_calls' = EmptyTable
    /\ UNCHANGED <<feed, db_jobs, scan_count, deliveries, runs>>
    /\ UNCHANGED quota_vars
    /\ UNCHANGED matcher_vars
    /\ UNCHANGED component_vars

NextRestart ==
    \/ StartRun
    \/ Exit
    \/ Interrupt
    \/ \E s \in SourceIdx : FetchFromSource(s)
    \/ Gather
    \/ Deduplicate
    \/ ProcessJobs
    \/ ApplyLLMFilter
    \/ \E i \in 1..Len(processed) : FilterJob(i)
    \/ ApplyLLMResults
    \/ GetTopMatches
    \/ InsertJobsBatch
    \/ SendNotifications
    \/ SendJob
    \/ MarkNotified
    \/ Summary

SpecRestart == Init /\ [][NextRestart]_vars

(***************************************************************************)
(* The monthly quota of the external search API: GoogleJobsSource of       *)
(* src/src/sources/india.py on table api_usage, and GoogleJobsSource of    *)
(* src/job_watchdog.py on the file serpapi_usage.txt.  Executions of       *)
(* fetch_jobs in overlapping processes share the store.                    *)
(***************************************************************************)
Max(a, b) == IF a >= b THEN a ELSE b

\* len(xs[:k]) for a list of n items
SliceLen(n, k) == IF k >= 0 THEN Min(n, k) ELSE Max(n + k, 0)

\* len(search_keywords) before the slice: a keyword group, or the user's
\* first keyword and the first of the group
KeywordsPerRun == 2

\* "Max 3 searches per run"
MaxSearches == 3

\* JobDatabase.get_api_usage("serpapi")
get_api_usage(table, m) == table[m]

\* JobDatabase.increment_api_usage("serpapi"): one UPSERT
increment_api_usage(table, m) == [table EXCEPT ![m] = @ + 1]

\* get_serpapi_usage()
get_serpapi_usage(file, m) == IF file.month = m THEN file.count ELSE 0

\* a gate that never closes
limit_reached_never(remaining) == FALSE

\* the quota gate of fetch_jobs: remaining <= 0
limit_reached(remaining) == remaining <= 0

\* the quota gate of the legacy fetch_jobs: current_usage >= limit
legacy_limit_reached(current_usage) == current_usage >= MonthlyLimit

\* fetch_jobs up to the first request (the source is only registered when
\* settings.serpapi.api_key is set)
FetchStart(f) ==
    /\ impl = "src"
    /\ fetcher[f].pc = "idle"
    /\ LET usage == get_api_usage(api_usage, month)
           remaining == MonthlyLimit - usage
           max_searches == Min(MaxSearches, remaining)
           todo == SliceLen(KeywordsPerRun, max_searches)
       IN fetcher' = [fetcher EXCEPT ![f] =
            IF limit_reached(remaining)
            THEN [IdleFetcher EXCEPT !.pc = "done", !.usage = usage,
                                     !.error = "Monthly limit reached"]
            ELSE [IdleFetcher EXCEPT !.pc = IF todo > 0 THEN "search" ELSE "done",
                                     !.usage = usage, !.todo = todo]]
    /\ UNCHANGED <<impl, api_usage, usage_file, month, requests>>
    /\ UNCHANGED pipeline_vars
    /\ UNCHANGED matcher_vars
    /\ UNCHANGED component_vars

\* client.get(...) is sent
SendRequest(f) ==
    /\ impl = "src"
    /\ fetcher[f].pc = "search"
    /\ requests[month] < MaxRequests
    /\ requests' = [requests EXCEPT ![month] = @ + 1]
    /\ fetcher' = [fetcher EXCEPT ![f].pc = "awaiting", ![f].issued = @ + 1]
    /\ UNCHANGED <<impl, api_usage, usage_file, month>>
    /\ UNCHANGED pipeline_vars
    /\ UNCHANGED matcher_vars
    /\ UNCHANGED component_vars

\* the rest of the loop body: the response arrives (or client.get raises),
\* and a 200 is counted and parsed
Response(f) ==
    /\ impl = "src"
    /\ fetcher[f].pc = "awaiting"
    /\ \E status \in {"200", "other", "raise"}, found \in 0..1 :
         LET left == fetcher[f].todo - 1
             next == IF left = 0 THEN "done" ELSE "search"
         IN
         /\ status # "200" => found = 0
         /\ IF status = "raise"
            THEN /\ fetcher' = [fetcher EXCEPT ![f].pc = "done",
                                               ![f].error = "exception"]
                 /\ UNCHANGED api_usage
            ELSE IF status = "other"
            THEN /\ fetcher' = [fetcher EXCEPT ![f].pc = next, ![f].todo = left]
                 /\ UNCHANGED api_usage
            ELSE /\ api_usage' = increment_api_usage(api_usage, month)
                 /\ fetcher' = [fetcher EXCEPT ![f].pc = next, ![f].todo = left,
                                               ![f].counted = @ + 1,
                                               ![f].jobs = @ + found]
    /\ UNCHANGED <<impl, usage_file, month, requests>>
    /\ UNCHANGED pipeline_vars
    /\ UNCHANGED matcher_vars
    /\ UNCHANGED component_vars

\* the legacy fetch_jobs up to the search
LegacyFetchStart(f) ==
    /\ impl = "legacy"
    /\ fetcher[f].pc = "idle"
    /\ LET current_usage == get_serpapi_usage(usage_file, month)
       IN fetcher' = [fetcher EXCEPT ![f] =
            IF legacy_limit_reached(current_usage)
            THEN [IdleFetcher EXCEPT !.pc = "done", !.usage = current_usage,
                                     !.error = "Monthly limit reached"]
            ELSE [IdleFetcher EXCEPT !.pc = "request", !.usage = current_usage]]
    /\ UNCHANGED <<impl, api_usage, usage_file, month, requests>>
    /\ UNCHANGED pipeline_vars
    /\ UNCHANGED matcher_vars
    /\ UNCHANGED component_vars

\* search.get_dict(): the one request of the run, which returns or raises
LegacySearch(f) ==
    /\ impl = "legacy"
    /\ fetcher[f].pc = "request"
    /\ requests[month] < MaxRequests
    /\ requests' = [requests EXCEPT ![month] = @ + 1]
    /\ \E ok \in BOOLEAN :
         fetcher' = [fetcher EXCEPT ![f].issued = @ + 1,
                                    ![f].pc = IF ok THEN "increment" ELSE "done",
                                    ![f].error = IF ok THEN "None" ELSE "exception"]
    /\ UNCHANGED <<impl, api_usage, usage_file, month>>
    /\ UNCHANGED pipeline_vars
    /\ UNCHANGED matcher_vars
    /\ UNCHANGED component_vars

\* increment_serpapi_usage: current_month, and count = get_serpapi_usage() + 1
LegacyIncrementRead(f) ==
    /\ impl = "legacy"
    /\ fetcher[f].pc = "increment"
    /\ fetcher' = [fetcher EXCEPT ![f].pc = "write",
                                  ![f].read = get_serpapi_usage(usage_file, month),
                                  ![f].read_month = month]
    /\ UNCHANGED <<impl, api_usage, usage_file, month, requests>>
    /\ UNCHANGED pipeline_vars
    /\ UNCHANGED matcher_vars
    /\ UNCHANGED component_vars

\* increment_serpapi_usage: the file is written; the results are parsed
LegacyIncrementWrite(f) ==
    /\ impl = "legacy"
    /\ fetcher[f].pc = "write"
    /\ usage_file' = [month |-> fetcher[f].read_month, count |-> fetcher[f].read + 1]
    /\ \E found \in 0..1 :
         fetcher' = [fetcher EXCEPT ![f].pc = "done", ![f].counted = @ + 1,
                                    ![f].jobs = found]
    /\ UNCHANGED <<impl, api_usage, month, requests>>
    /\ UNCHANGED pipeline_vars
    /\ UNCHANGED matcher_vars
    /\ UNCHANGED component_vars

\* fetch_jobs has returned; a later execution starts afresh
FetchReturn(f) ==
    /\ fetcher[f].pc = "done"
    /\ fetcher' = [fetcher EXCEPT ![f] = IdleFetcher]
    /\ UNCHANGED <<impl, api_usage, usage_file, month, requests>>
    /\ UNCHANGED pipeline_vars
    /\ UNCHANGED matcher_vars
    /\ UNCHANGED component_vars

\* the month changes
NextMonth ==
    /\ month < MaxMonth
    /\ month' = month + 1
    /\ UNCHANGED <<impl, api_usage, usage_file, requests, fetcher>>
    /\ UNCHANGED pipeline_vars
    /\ UNCHANGED matcher_vars
    /\ UNCHANGED component_vars

InitQuota ==
    /\ feed = [s \in SourceIdx |-> <<>>]
    /\ PipelineIdle
    /\ impl \in {"src", "legacy"}
    /\ QuotaIdle
    /\ MatcherIdle
    /\ ComponentsIdle

NextQuota ==
    \/ \E f \in 1..MaxFetchers : FetchStart(f)
    \/ \E f \in 1..MaxFetchers : SendRequest(f)
    \/ \E f \in 1..MaxFetchers : Response(f)
    \/ \E f \in 1..MaxFetchers : LegacyFetchStart(f)
    \/ \E f \in 1..MaxFetchers : LegacySearch(f)
    \/ \E f \in 1..MaxFetchers : LegacyIncrementRead(f)
    \/ \E f \in 1..MaxFetchers : LegacyIncrementWrite(f)
    \/ \E f \in 1..MaxFetchers : FetchReturn(f)
    \/ NextMonth

SpecQuota == InitQuota /\ [][NextQuota]_vars

(***************************************************************************)
(* The matcher and the filters on their own: match_job, check_experience   *)
(* and the three age estimators of the repository applied to one posting.  *)
(***************************************************************************)
SampleTitles ==
    {"Data Analyst", "Junior Data Analyst", "Senior Sales Director", "Sales Data Analyst"}

SampleLocations == {"", "N/A", "Pune", "London", "Remote", "Berlin"}

SampleDescriptions ==
    {"Work with python and sql on dashboards for our retail clients.",
     "Needs 10 years of experience with sql and excel in a large bank.",
     "Data science with python, machine learning, sql and statistics; US only.",
     "Cook."}

\* cosine similarities to the two profile texts, in millionths, and the ways
\* get_embedding fails
SampleEmbeddings ==
    {Embedded(900300, 100000), Embedded(263300, 100000),
     Embedded(0 - 500000, 0 - 400000), NoEmbedding, EmbeddingRaises}

SamplePosted ==
    {PyNone, PyStr(""), PyStr("2 hours ago"), PyStr("1 week ago"), PyStr("2 weeks ago"),
     PyStr("3 months ago"), PyStr("1 year ago"), PyStr("Yesterday"), PyStr("Today"),
     PyStr("2 hours 30 minutes ago"), PyStr("just 2 days ago"),
     PyStr("3 days ago, this week"), PyStr("2026-02-28T22:30:00Z"), PyStr("2026-02-27"),
     PyStr("1772274600")}

\* the values of a payload that RawJob converts to the posted text: the text
\* itself, and the number when the text is one
payload_values(posted) ==
    IF posted.type = "str" /\ IsDigits(posted.str) /\ Len(posted.str) <= 10
    THEN {posted, PyInt(ToInt(posted.str))}
    ELSE {posted}

\* a posting that match_job detects when its age allows
FreshSample(posted) ==
    RawJob("Data Analyst", "Acme", Naukri, "Pune",
           "Work with python and sql on dashboards for our retail clients.",
           posted, Embedded(900300, 100000))

Samples ==
    { RawJob(title, "Acme", Naukri, location, description, PyStr("2 hours ago"), embedding) :
        title \in SampleTitles, location \in SampleLocations,
        description \in SampleDescriptions, embedding \in SampleEmbeddings }
    \cup { FreshSample(posted) : posted \in SamplePosted }

\* what match_job computes of each sample without its embedding, computed once
SampleLocals == [job \in Samples |-> job_locals(job)]

\* match_job for each sample and each set of profile embeddings
SampleMatched ==
    [job \in Samples, profiles \in SUBSET Profiles |->
        match_job_with(job, profiles, SampleLocals[job])]

\* check_experience for each sample, computed once
SampleChecked ==
    [text \in { <<job.title, job.description>> : job \in Samples } |->
        check_experience(text[1], text[2])]

\* the three age estimators for each posted value, computed once
SampleAges ==
    [posted \in SamplePosted |->
        [semantic |-> _parse_job_age(posted),
         legacy |-> [value \in payload_values(posted) |-> parse_job_age_hours(value)],
         base |-> _parse_job_age_hours(posted)]]

InitMatcher ==
    /\ feed = [s \in SourceIdx |-> <<>>]
    /\ PipelineIdle
    /\ impl = "src"
    /\ QuotaIdle
    /\ sample \in Samples
    /\ profile_embeddings \in SUBSET Profiles
    /\ applied = EmptyTable
    /\ ComponentsIdle

\* the results so far and the result of the function named f
Returned(results, f, result) ==
    [g \in DOMAIN results \cup {f} |-> IF g = f THEN result ELSE results[g]]

\* SemanticMatcher.match_job(sample)
MatchJob ==
    /\ "match_job" \notin DOMAIN applied
    /\ applied' = Returned(applied, "match_job", SampleMatched[sample, profile_embeddings])
    /\ UNCHANGED <<profile_embeddings, sample>>
    /\ UNCHANGED component_vars
    /\ UNCHANGED pipeline_vars
    /\ UNCHANGED quota_vars

\* QuickExperienceFilter.check_experience(sample.title, sample.description)
CheckExperience ==
    /\ "check_experience" \notin DOMAIN applied
    /\ applied' = Returned(applied, "check_experience", SampleChecked[<<sample.title, sample.description>>])
    /\ UNCHANGED <<profile_embeddings, sample>>
    /\ UNCHANGED component_vars
    /\ UNCHANGED pipeline_vars
    /\ UNCHANGED quota_vars

\* SemanticMatcher._parse_job_age(sample.posted)
ParseJobAge ==
    /\ "_parse_job_age" \notin DOMAIN applied
    /\ applied' = Returned(applied, "_parse_job_age", SampleAges[sample.posted].semantic)
    /\ UNCHANGED <<profile_embeddings, sample>>
    /\ UNCHANGED component_vars
    /\ UNCHANGED pipeline_vars
    /\ UNCHANGED quota_vars

\* parse_job_age_hours of job_watchdog.py for a payload value of the sample
ParseJobAgeHours ==
    /\ "parse_job_age_hours" \notin DOMAIN applied
    /\ \E value \in payload_values(sample.posted) :
         applied' = Returned(applied, "parse_job_age_hours",
                             SampleAges[sample.posted].legacy[value])
    /\ UNCHANGED <<profile_embeddings, sample>>
    /\ UNCHANGED component_vars
    /\ UNCHANGED pipeline_vars
    /\ UNCHANGED quota_vars

\* BaseJobSource._parse_job_age_hours(sample.posted)
BaseParseJobAgeHours ==
    /\ "_parse_job_age_hours" \notin DOMAIN applied
    /\ applied' = Returned(applied, "_parse_job_age_hours", SampleAges[sample.posted].base)
    /\ UNCHANGED <<profile_embeddings, sample>>
    /\ UNCHANGED component_vars
    /\ UNCHANGED pipeline_vars
    /\ UNCHANGED quota_vars

NextMatcher ==
    \/ MatchJob
    \/ CheckExperience
    \/ ParseJobAge
    \/ ParseJobAgeHours
    \/ BaseParseJobAgeHours

SpecMatcher == InitMatcher /\ [][NextMatcher]_vars

(***************************************************************************)
(* The embedding backend of semantic.py: the module globals _model,        *)
(* _model_failed and _embeddings_cache under get_embedding and             *)
(* reset_model.                                                            *)
(***************************************************************************)
\* settings.matching.cache_embeddings
cache_embeddings == TRUE

\* texts get_embedding is called with
BackendTexts == {"Data Analyst", " data analyst ", "Cook"}

\* text.strip().lower()[:5000], the text whose hash is the cache key
normalized_text(text) ==
    LET t == Lower(Strip(text)) IN SubSeq(t, 1, Min(5000, Len(t)))

\* get_model on globals g: load_ok says whether building the
\* SentenceTransformer succeeds; attempted says whether it was tried
get_model(g, load_ok) ==
    IF g.failed
    THEN [result |-> "None", model |-> g.model, failed |-> TRUE, attempted |-> FALSE]
    ELSE IF g.model = "None"
    THEN IF load_ok
         THEN [result |-> "loaded", model |-> "loaded", failed |-> FALSE,
               attempted |-> TRUE]
         ELSE [result |-> "None", model |-> "None", failed |-> TRUE,
               attempted |-> TRUE]
    ELSE [result |-> g.model, model |-> g.model, failed |-> FALSE,
          attempted |-> FALSE]

\* get_embedding(text) on globals g: encode_ok says whether model.encode
\* returns; result "cached" and "embedding" are arrays, "None" is None
get_embedding(g, text, load_ok, encode_ok) ==
    LET key == normalized_text(text) IN
    IF cache_embeddings /\ key \in g.cache
    THEN [result |-> "cached", model |-> g.model, failed |-> g.failed,
          cache |-> g.cache, attempted |-> FALSE, error |-> FALSE]
    ELSE LET got == get_model(g, load_ok) IN
         IF got.result = "None"
         THEN [result |-> "None", model |-> got.model, failed |-> got.failed,
               cache |-> g.cache, attempted |-> got.attempted,
               error |-> got.attempted]
         ELSE IF encode_ok
         THEN [result |-> "embedding", model |-> got.model, failed |-> got.failed,
               cache |-> IF cache_embeddings THEN g.cache \cup {key} ELSE g.cache,
               attempted |-> got.attempted, error |-> FALSE]
         ELSE [result |-> "None", model |-> "None", failed |-> got.failed,
               cache |-> g.cache, attempted |-> got.attempted, error |-> TRUE]

\* the module globals as one value
BackendGlobals ==
    [model |-> _model, failed |-> _model_failed, cache |-> _embeddings_cache]

\* one call of get_embedding, for a posting or a profile
GetEmbedding ==
    /\ embedding_calls < MaxCalls
    /\ \E text \in BackendTexts, load_ok, encode_ok \in BOOLEAN :
         LET got == get_embedding(BackendGlobals, text, load_ok, encode_ok) IN
         /\ _model' = got.model
         /\ _model_failed' = got.failed
         /\ _embeddings_cache' = got.cache
         /\ load_attempts' = IF got.attempted THEN load_attempts + 1 ELSE load_attempts
         /\ backend_failed' = (backend_failed \/ got.error)
    /\ embedding_calls' = embedding_calls + 1
    /\ UNCHANGED pipeline_vars
    /\ UNCHANGED quota_vars
    /\ UNCHANGED matcher_vars
    /\ UNCHANGED fetch_vars
    /\ UNCHANGED normalizer_vars
    /\ UNCHANGED legacy_vars

\* reset_model()
ResetModel ==
    /\ _model' = "None"
    /\ _model_failed' = FALSE
    /\ backend_failed' = FALSE
    /\ UNCHANGED <<_embeddings_cache, embedding_calls, load_attempts>>
    /\ UNCHANGED pipeline_vars
    /\ UNCHANGED quota_vars
    /\ UNCHANGED matcher_vars
    /\ UNCHANGED fetch_vars
    /\ UNCHANGED normalizer_vars
    /\ UNCHANGED legacy_vars

InitBackend ==
    /\ feed = [s \in SourceIdx |-> <<>>]
    /\ PipelineIdle
    /\ impl = "src"
    /\ QuotaIdle
    /\ MatcherIdle
    /\ ComponentsIdle

NextBackend ==
    \/ GetEmbedding
    \/ ResetModel

SpecBackend == InitBackend /\ [][NextBackend]_vars

(***************************************************************************)
(* fetch_all_jobs: one fetch_with_limit task per source, gathered on one   *)
(* event loop, each awaiting its _fetch_from_source coroutine inside       *)
(* `async with semaphore`.  A task is "created", then "waiting" in the     *)
(* queue of the semaphore or "fetching", then "returned" or "raised".      *)
(***************************************************************************)
\* a variant of locked in which the semaphore is never taken
locked_never(sem) == FALSE

\* Semaphore.locked: no permit is left, or a task is waiting for one
locked(sem) == sem.value = 0 \/ sem.waiters # <<>>

\* Semaphore.release: the permit is given back; the first waiter is woken by
\* WakeUp
release(sem) == [sem EXCEPT !.value = @ + 1]

\* the tasks whose _fetch_from_source is in flight
InFlight == { t \in FetchTasks : fetch_pc[t] = "fetching" }

\* the task of source t reaches `async with semaphore`: it takes a permit,
\* or joins the waiters
Acquire(t) ==
    /\ fetch_pc[t] = "created"
    /\ IF locked(semaphore)
       THEN /\ semaphore' = [semaphore EXCEPT !.waiters = Append(@, t)]
            /\ fetch_pc' = [fetch_pc EXCEPT ![t] = "waiting"]
       ELSE /\ semaphore' = [semaphore EXCEPT !.value = @ - 1]
            /\ fetch_pc' = [fetch_pc EXCEPT ![t] = "fetching"]
    /\ UNCHANGED pipeline_vars
    /\ UNCHANGED quota_vars
    /\ UNCHANGED matcher_vars
    /\ UNCHANGED backend_vars
    /\ UNCHANGED normalizer_vars
    /\ UNCHANGED legacy_vars

\* the first waiter is woken after a release and takes the permit
WakeUp ==
    /\ semaphore.waiters # <<>>
    /\ semaphore.value > 0
    /\ LET t == Head(semaphore.waiters) IN
       /\ semaphore' = [value |-> semaphore.value - 1,
                        waiters |-> Tail(semaphore.waiters)]
       /\ fetch_pc' = [fetch_pc EXCEPT ![t] = "fetching"]
    /\ UNCHANGED pipeline_vars
    /\ UNCHANGED quota_vars
    /\ UNCHANGED matcher_vars
    /\ UNCHANGED backend_vars
    /\ UNCHANGED normalizer_vars
    /\ UNCHANGED legacy_vars

\* _fetch_from_source of task t ends, with a JobBatch or with the exception
\* of source.close(); leaving `async with` releases the permit
FetchDone(t) ==
    /\ fetch_pc[t] = "fetching"
    /\ \E outcome \in {"returned", "raised"} :
         fetch_pc' = [fetch_pc EXCEPT ![t] = outcome]
    /\ semaphore' = release(semaphore)
    /\ UNCHANGED pipeline_vars
    /\ UNCHANGED quota_vars
    /\ UNCHANGED matcher_vars
    /\ UNCHANGED backend_vars
    /\ UNCHANGED normalizer_vars
    /\ UNCHANGED legacy_vars

\* fetch_all_jobs up to gather, for any number of sources up to MaxSources
InitFetch ==
    /\ feed = [s \in SourceIdx |-> <<>>]
    /\ PipelineIdle
    /\ impl = "src"
    /\ QuotaIdle
    /\ MatcherIdle
    /\ BackendIdle
    /\ NormalizerIdle
    /\ LegacyIdle
    /\ \E n \in 1..MaxSources :
         fetch_pc = [t \in FetchTasks |-> IF t <= n THEN "created" ELSE "idle"]
    /\ semaphore = [value |-> max_concurrent_requests, waiters |-> <<>>]

NextFetch ==
    \/ \E t \in FetchTasks : Acquire(t)
    \/ WakeUp
    \/ \E t \in FetchTasks : FetchDone(t)

SpecFetch == InitFetch /\ [][NextFetch]_vars

\* the event loop runs every task that is ready, and every fetch terminates
FairFetch ==
    /\ \A t \in FetchTasks : WF_vars(Acquire(t))
    /\ WF_vars(WakeUp)
    /\ \A t \in FetchTasks : WF_vars(FetchDone(t))

SpecFetchFair == SpecFetch /\ FairFetch

(***************************************************************************)
(* The normalizer: RawJob of models.py built by RemoteOKSource.fetch_jobs  *)
(* from the items of the site's JSON.  A key of an item is absent, null    *)
(* or a string.                                                            *)
(***************************************************************************)
\* the key is not in the dict
Absent == [type |-> "absent", str |-> "", num |-> 0]

\* job.get(key, default)
dict_get(item, key, default) == IF item[key] = Absent THEN default ELSE item[key]

\* a field declared str with no validator of its own: a str is taken as it
\* is, anything else is a ValidationError
str_field(v) == [ok |-> v.type = "str", value |-> v]

\* a field declared Optional[str] with no validator of its own
optional_str_field(v) == [ok |-> v.type \in {"str", "NoneType"}, value |-> v]

\* RawJob.clean_string
clean_string(v) ==
    IF v = PyNone THEN PyStr("Unknown")
    ELSE LET t == Strip(StrOf(v)) IN PyStr(SubSeq(t, 1, Min(200, Len(t))))

\* RawJob.clean_description
clean_description(v) ==
    IF v = PyNone THEN PyStr("")
    ELSE LET t == Strip(CollapseSpaces(RemoveTags(StrOf(v))))
         IN PyStr(SubSeq(t, 1, Min(5000, Len(t))))

\* RawJob.clean_url
clean_url(v) == IF ~Truthy(v) THEN PyStr("") ELSE PyStr(Strip(StrOf(v)))

\* RawJob.convert_posted
convert_posted(v) == IF v = PyNone THEN PyNone ELSE PyStr(StrOf(v))

\* RawJob(title=..., ...): ok is FALSE when pydantic raises ValidationError
RawJob_init(title, company, location, description, url, src, posted, salary) ==
    LET loc == str_field(location)
        sal == optional_str_field(salary)
    IN [ok |-> loc.ok /\ sal.ok,
        job |-> [title |-> clean_string(title), company |-> clean_string(company),
                 location |-> loc.value, description |-> clean_description(description),
                 url |-> clean_url(url), source |-> src,
                 posted |-> convert_posted(posted), salary |-> sal.value]]

\* the keywords fetch_jobs is given
FetchKeywords == <<"data">>

\* _matches_keywords(job_text, keywords) for the job_text of fetch_jobs; no
\* item has tags
item_matches(item) ==
    LET job_text == Lower(StrOf(dict_get(item, "position", PyStr(""))) \o " "
                            \o StrOf(dict_get(item, "description", PyStr(""))) \o " ")
    IN \E k \in 1..Len(FetchKeywords) : Contains(job_text, Lower(FetchKeywords[k]))

\* the RawJob fetch_jobs builds from an item
item_job(item) ==
    RawJob_init(dict_get(item, "position", PyStr("Unknown")),
                dict_get(item, "company", PyStr("Unknown")),
                dict_get(item, "location", PyStr("Remote")),
                dict_get(item, "description", PyStr("")),
                dict_get(item, "url", PyStr("https://remoteok.com/jobs/")),
                RemoteOK,
                dict_get(item, "date", PyStr("")),
                dict_get(item, "salary", PyStr("")))

\* an item with every key
GoodItem ==
    [position |-> PyStr(" Data Analyst "), company |-> PyStr("Acme"),
     location |-> PyStr("Worldwide"), description |-> PyStr("<p>Python and  SQL</p>"),
     url |-> PyStr("https://remoteok.com/jobs/1"), date |-> PyStr("2026-02-27"),
     salary |-> PyStr("50k")]

ItemKeys == DOMAIN GoodItem

\* the items in which any keys are absent or null
Items ==
    { [key \in ItemKeys |-> IF key \in absent THEN Absent
                             ELSE IF key \in null THEN PyNone ELSE GoodItem[key]] :
        absent \in SUBSET ItemKeys, null \in SUBSET ItemKeys }

\* one iteration of the loop of fetch_jobs; an exception of RawJob leaves the
\* loop for the except clause
ParseItem ==
    /\ ~remoteok.done
    /\ remoteok.next <= Len(payload)
    /\ LET item == payload[remoteok.next]
           built == item_job(item)
       IN IF ~item_matches(item)
          THEN remoteok' = [remoteok EXCEPT !.next = @ + 1]
          ELSE IF built.ok
          THEN remoteok' = [remoteok EXCEPT !.next = @ + 1,
                                            !.jobs = Append(@, built.job)]
          ELSE remoteok' = [remoteok EXCEPT !.next = Len(payload) + 1,
                                            !.error = "ValidationError"]
    /\ UNCHANGED payload
    /\ UNCHANGED pipeline_vars
    /\ UNCHANGED quota_vars
    /\ UNCHANGED matcher_vars
    /\ UNCHANGED backend_vars
    /\ UNCHANGED fetch_vars
    /\ UNCHANGED legacy_vars

\* fetch_jobs returns JobBatch(source, jobs, error)
ReturnBatch ==
    /\ ~remoteok.done
    /\ remoteok.next > Len(payload)
    /\ remoteok' = [remoteok EXCEPT !.done = TRUE]
    /\ UNCHANGED payload
    /\ UNCHANGED pipeline_vars
    /\ UNCHANGED quota_vars
    /\ UNCHANGED matcher_vars
    /\ UNCHANGED backend_vars
    /\ UNCHANGED fetch_vars
    /\ UNCHANGED legacy_vars

\* fetch_jobs got a list of two items from the site: one with any keys absent
\* or null, before or after one with every key
InitNormalizer ==
    /\ feed = [s \in SourceIdx |-> <<>>]
    /\ PipelineIdle
    /\ impl = "src"
    /\ QuotaIdle
    /\ MatcherIdle
    /\ BackendIdle
    /\ FetchIdle
    /\ LegacyIdle
    /\ \E item \in Items : payload \in {<<item, GoodItem>>, <<GoodItem, item>>}
    /\ remoteok = [next |-> 1, jobs |-> <<>>, error |-> "None", done |-> FALSE]

NextNormalizer ==
    \/ ParseItem
    \/ ReturnBatch

SpecNormalizer == InitNormalizer /\ [][NextNormalizer]_vars

(***************************************************************************)
(* main of job_watchdog.py: every search configuration is fetched, the     *)
(* fresh jobs that are not in the history and reach the score are sorted   *)
(* and the first fifteen are given to send_telegram.                       *)
(***************************************************************************)
\* MIN_MATCH_SCORE, in percent
MIN_MATCH_SCORE == 15

\* the notifications of one execution: new_matches[:15]
LegacyTopLimit == 15

\* SEARCH_CONFIGS: tag and profile
SEARCH_CONFIGS ==
    <<[tag |-> "Data Science", profile |-> "DS_PROFILE"],
      [tag |-> "Data Analytics", profile |-> "DA_PROFILE"],
      [tag |-> "BI Developer", profile |-> "DA_PROFILE"]>>

\* a job dict as a source of job_watchdog.py returns it; score is what
\* get_match_score gives for each profile
LegacyJob(title, posted, ds, da) ==
    [title |-> title, company |-> "Acme", source |-> RemoteOK, posted |-> posted,
     score |-> [profile \in {"DS_PROFILE", "DA_PROFILE"} |->
                   IF profile = "DS_PROFILE" THEN ds ELSE da]]

\* the jobs the site lists: two fresh ones, one of them below the score for
\* one profile, and one that is too old
LegacyJobs ==
    <<LegacyJob("Data Analyst", PyStr("2 hours ago"), 40, 30),
      LegacyJob("BI Developer", PyStr("1 hour ago"), 10, 20),
      LegacyJob("Data Engineer", PyStr("3 days ago"), 50, 50)>>

\* generate_job_id
generate_job_id(job) == Md5Hex16(job.title \o "_" \o job.company \o "_" \o job.source)

\* get_match_score(job['profile'], job)
get_match_score(profile, job) == job.score[profile]

\* the jobs fetch_jobs returned for configuration c, with tag and profile
tagged(jobs, c) ==
    [i \in 1..Len(jobs) |->
        [job |-> jobs[i], tag |-> SEARCH_CONFIGS[c].tag,
         profile |-> SEARCH_CONFIGS[c].profile]]

\* new_matches of main before the sort: the fresh jobs whose id is not in
\* the history and whose score reaches MIN_MATCH_SCORE
new_matches_of(all, history) ==
    SelectSeq(all, LAMBDA j :
        /\ is_job_fresh(j.job.posted)
        /\ generate_job_id(j.job) \notin history
        /\ get_match_score(j.profile, j.job) >= MIN_MATCH_SCORE)

\* new_matches.sort(key=lambda x: x['score'], reverse=True)
sorted_by_score(matches) ==
    LET scored == [i \in 1..Len(matches) |->
                      [combined_score |-> get_match_score(matches[i].profile,
                                                          matches[i].job)]]
        order == SortDesc([i \in 1..Len(matches) |-> i], scored)
    IN [k \in 1..Len(matches) |-> matches[order[k]]]

\* source.fetch_jobs(config['keywords']) for the next configuration: the
\* jobs are tagged and added to all_jobs, or the call raises
MainFetch ==
    /\ legacy_main.pc = "fetch"
    /\ LET c == legacy_main.config IN
       \E raises \in BOOLEAN :
         legacy_main' =
            [legacy_main EXCEPT
               !.all_jobs = IF raises THEN @ ELSE @ \o tagged(listing[c], c),
               !.config = c + 1,
               !.pc = IF c = Len(SEARCH_CONFIGS) THEN "process" ELSE "fetch"]
    /\ UNCHANGED listing
    /\ UNCHANGED pipeline_vars
    /\ UNCHANGED quota_vars
    /\ UNCHANGED matcher_vars
    /\ UNCHANGED backend_vars
    /\ UNCHANGED fetch_vars
    /\ UNCHANGED normalizer_vars

\* the freshness filter, the loop over fresh_jobs and the sort
MainProcess ==
    /\ legacy_main.pc = "process"
    /\ legacy_main' =
          [legacy_main EXCEPT
             !.new_matches = sorted_by_score(new_matches_of(legacy_main.all_jobs,
                                                            legacy_main.history)),
             !.next = 1,
             !.pc = "notify"]
    /\ UNCHANGED listing
    /\ UNCHANGED pipeline_vars
    /\ UNCHANGED quota_vars
    /\ UNCHANGED matcher_vars
    /\ UNCHANGED backend_vars
    /\ UNCHANGED fetch_vars
    /\ UNCHANGED normalizer_vars

\* one iteration of the loop over new_matches[:15]: send_telegram is called
\* when telegram_ok, and the id is added to the history
MainNotify ==
    /\ legacy_main.pc = "notify"
    /\ legacy_main.next <= Min(LegacyTopLimit, Len(legacy_main.new_matches))
    /\ LET id == generate_job_id(legacy_main.new_matches[legacy_main.next].job) IN
       legacy_main' =
          [legacy_main EXCEPT
             !.sent = IF legacy_main.telegram_ok THEN Append(@, id) ELSE @,
             !.history = @ \cup {id},
             !.next = @ + 1]
    /\ UNCHANGED listing
    /\ UNCHANGED pipeline_vars
    /\ UNCHANGED quota_vars
    /\ UNCHANGED matcher_vars
    /\ UNCHANGED backend_vars
    /\ UNCHANGED fetch_vars
    /\ UNCHANGED normalizer_vars

\* save_history(history) and the end of main
MainSave ==
    /\ legacy_main.pc = "notify"
    /\ legacy_main.next > Min(LegacyTopLimit, Len(legacy_main.new_matches))
    /\ legacy_main' = [legacy_main EXCEPT !.pc = "done"]
    /\ UNCHANGED listing
    /\ UNCHANGED pipeline_vars
    /\ UNCHANGED quota_vars
    /\ UNCHANGED matcher_vars
    /\ UNCHANGED backend_vars
    /\ UNCHANGED fetch_vars
    /\ UNCHANGED normalizer_vars

\* the sublists of jobs, in the order of the site
RECURSIVE Sublists(_)
Sublists(jobs) ==
    IF jobs = <<>> THEN {<<>>}
    ELSE LET rest == Sublists(Tail(jobs))
         IN rest \cup { <<Head(jobs)>> \o r : r \in rest }

\* main starts: the history file holds none or one of the ids, and the
\* source lists any of the jobs under each configuration
InitLegacyMain ==
    /\ feed = [s \in SourceIdx |-> <<>>]
    /\ PipelineIdle
    /\ impl = "legacy"
    /\ QuotaIdle
    /\ MatcherIdle
    /\ BackendIdle
    /\ FetchIdle
    /\ NormalizerIdle
    /\ listing \in [1..Len(SEARCH_CONFIGS) -> Sublists(LegacyJobs)]
    /\ \E history \in {{}, {generate_job_id(LegacyJobs[2])}}, telegram_ok \in BOOLEAN :
         legacy_main = [pc |-> "fetch", config |-> 1, all_jobs |-> <<>>,
                        new_matches |-> <<>>, next |-> 1, history |-> history,
                        telegram_ok |-> telegram_ok, sent |-> <<>>]

NextLegacyMain ==
    \/ MainFetch
    \/ MainProcess
    \/ MainNotify
    \/ MainSave

SpecLegacyMain == InitLegacyMain /\ [][NextLegacyMain]_vars

(***************************************************************************)
(* Properties of the pipeline.                                             *)
(***************************************************************************)
\* positions of run at which deduplicate_jobs has returned
AfterDedup == {"match", "llm", "llm_batch", "top", "save", "notify", "sending", "summary",
               "returned", "crashed"}

\* positions of run at which process_jobs has returned
AfterMatch == AfterDedup \ {"match"}

\* the run in progress fetched the batch the previous run fetched, the
\* previous run returned, and the store is the one it left
SameBatchAgain ==
    /\ pc \in {"dedup"} \cup AfterDedup
    /\ last_run.valid
    /\ raw_jobs = last_run.jobs

\* C1: a run that fetches the identical batch the previous run fetched, on
\* the store the previous run left, finds no new posting in
\* deduplicate_jobs, goes no further than the early return, and sends no
\* notification.
C1_DedupIdempotence ==
    SameBatchAgain =>
        /\ new_jobs = <<>>
        /\ pc \in {"dedup", "returned"}
        /\ to_notify = <<>>
        /\ send_results = <<>>

\* the second run returned on a non-empty batch of which the first run had
\* delivered a posting
C1_Witness ==
    /\ SameBatchAgain
    /\ pc = "returned"
    /\ runs = 2
    /\ raw_jobs # <<>>
    /\ \E i \in 1..Len(raw_jobs) : deliveries[job_id(raw_jobs[i])] = 1

\* C2: no fingerprint is accepted by the notification channel more than
\* once, over all runs, send outcomes and retention sweeps.
C2_AtMostOnce == \A id \in AllIds : deliveries[id] <= 1

\* raw postings i and j of the batch come from two sources with the same
\* title and company, and neither fingerprint was known
TwinsAcrossSources(i, j) ==
    /\ raw_jobs[i].title = raw_jobs[j].title
    /\ raw_jobs[i].company = raw_jobs[j].company
    /\ raw_jobs[i].source # raw_jobs[j].source
    /\ job_id(raw_jobs[i]) \notin known_ids
    /\ job_id(raw_jobs[j]) \notin known_ids

\* the ProcessedJobs of the run for raw postings i and j
RecordsFor(i, j) ==
    { m \in 1..Len(processed) :
        processed[m].job_id \in {job_id(raw_jobs[i]), job_id(raw_jobs[j])} }

\* C3 as stated: two postings with the same title and company from two
\* sources give exactly one ProcessedJob.
C3_CrossSourceCollapse ==
    pc \in AfterMatch =>
        \A i, j \in 1..Len(raw_jobs) :
            TwinsAcrossSources(i, j) => Cardinality(RecordsFor(i, j)) = 1

\* C3 amended: the fingerprint includes the source, so two postings with
\* the same title and company from two sources give two ProcessedJobs with
\* two fingerprints, one per source.
C3_OneRecordPerSource ==
    pc \in AfterMatch =>
        \A i, j \in 1..Len(raw_jobs) :
            TwinsAcrossSources(i, j) =>
                /\ job_id(raw_jobs[i]) # job_id(raw_jobs[j])
                /\ Cardinality(RecordsFor(i, j)) = 2

C3_Witness ==
    /\ pc \in AfterMatch
    /\ \E i, j \in 1..Len(raw_jobs) :
         /\ TwinsAcrossSources(i, j)
         /\ raw_jobs[i].description # raw_jobs[j].description
         /\ Cardinality(RecordsFor(i, j)) = 2

\* (title, company, source) after lower-casing
LowerKey(job) == <<Lower(job.title), Lower(job.company), Lower(job.source)>>

\* C4: two fetched postings whose title, company and source are equal after
\* lower-casing have the same job_id, whatever else differs.
C4_FingerprintStability ==
    \A i, j \in 1..Len(raw_jobs) :
        LowerKey(raw_jobs[i]) = LowerKey(raw_jobs[j])
            => job_id(raw_jobs[i]) = job_id(raw_jobs[j])

\* two postings that differ in spelling and description, with one key
C4_Witness ==
    /\ pc \in AfterDedup
    /\ \E i, j \in 1..Len(raw_jobs) :
         /\ raw_jobs[i].title # raw_jobs[j].title
         /\ raw_jobs[i].description # raw_jobs[j].description
         /\ LowerKey(raw_jobs[i]) = LowerKey(raw_jobs[j])
         /\ job_id(raw_jobs[i]) = job_id(raw_jobs[j])

\* positions of jobs that carry a fingerprint not in known for the first
\* time
FirstSeen(jobs, known) ==
    { i \in 1..Len(jobs) :
        /\ job_id(jobs[i]) \notin known
        /\ \A j \in 1..(i - 1) : job_id(jobs[j]) # job_id(jobs[i]) }

\* sub is jobs restricted to the positions in I, in the order of jobs
IsSubseqAt(sub, jobs, I) ==
    /\ Len(sub) = Cardinality(I)
    /\ \E f \in [1..Len(sub) -> I] :
         /\ \A a, b \in 1..Len(sub) : a < b => f[a] < f[b]
         /\ \A k \in 1..Len(sub) : sub[k] = jobs[f[k]]

\* C5: deduplicate_jobs returns the input restricted, in order, to the first
\* posting of each fingerprint that is not in the known set.
C5_FirstSeenWins ==
    pc \in AfterDedup => IsSubseqAt(new_jobs, raw_jobs, FirstSeen(raw_jobs, known_ids))

\* a batch with a known fingerprint, and a fingerprint carried twice of
\* which the first posting was kept
C5_Witness ==
    /\ pc \in AfterDedup
    /\ \E i \in 1..Len(raw_jobs) : job_id(raw_jobs[i]) \in known_ids
    /\ \E i, j \in 1..Len(raw_jobs) :
         /\ i < j
         /\ job_id(raw_jobs[i]) = job_id(raw_jobs[j])
         /\ raw_jobs[i] # raw_jobs[j]
         /\ new_jobs = <<raw_jobs[i]>>

\* the task of source s returned a batch without an error
SourceSucceeded(s) == batches[s].kind = "batch" /\ batches[s].error = "None"

\* C6: when fetch_all_jobs has returned, the batch holds every posting of
\* each source that succeeded, and stats.errors holds one string for each
\* source that failed (fetch_jobs raised or reported an error, or close
\* raised).
C6_PartialFailureTolerance ==
    pc = "dedup" =>
        \A s \in SourceIdx :
            IF SourceSucceeded(s)
            THEN \A i \in 1..Len(feed[s]) : feed[s][i] \in Range(raw_jobs)
            ELSE Cardinality({ k \in 1..Len(stats.errors) :
                                 stats.errors[k] = Sources[s] }) = 1

\* C7: a run that returned has completed_at set and has saved its stats as
\* exactly one row of scan_history.
C7_SummaryAlwaysSaved ==
    pc = "returned" =>
        /\ stats.completed_at # "None"
        /\ scan_history = <<scan_row(stats)>>

\* C8: when the INSERT of one posting fails, the other postings of the batch
\* are stored and the run goes on.
C8_PersistenceIsolation ==
    insert_error # 0 =>
        /\ pc # "crashed"
        /\ \A i \in 1..Len(processed) :
             i # insert_error => processed[i].job_id \in get_known_job_ids(db_jobs)

\* a step changes the status of a posting of the run only from detected, to
\* filtered or to notified
StatusStep ==
    \A i \in 1..Len(processed) :
        (i <= Len(processed') /\ processed'[i].status # processed[i].status)
            => /\ processed[i].status = "detected"
               /\ processed'[i].status \in {"filtered", "notified"}

\* no posting handed to the notification channel is filtered
NoFilteredHandedOver ==
    \A k \in 1..Len(to_notify) : processed[to_notify[k]].status # "filtered"

\* C11: within a run the status of a posting only moves from detected to
\* filtered or from detected to notified: a filtered posting is never detected
\* or notified again and is never handed to the notification channel, and a
\* posting becomes notified only from detected.
C11_OneDirectional == [][StatusStep]_vars /\ []NoFilteredHandedOver

\* a run has notified one posting and the experience filter filtered another
C11_Witness ==
    /\ pc = "summary"
    /\ stats.total_filtered_llm > 0
    /\ \E i, j \in 1..Len(processed) :
         /\ processed[i].status = "notified"
         /\ processed[j].status = "filtered"
         /\ processed[j].combined_score >= MinScore

\* the quick filter gave no clear signal for the job: it found neither a
\* senior pattern, nor a junior pattern, nor a number of years
NoClearSignal(job) == quick_check(job).reason = "No clear senior requirement found"

\* C12: every posting for which LLMFilter.filter_job is called is detected,
\* has a combined score at or above the threshold, and is one for which the
\* quick experience filter gave no clear signal; a posting the quick filter
\* flagged as junior-friendly is never sent to filter_job.
C12_StageBGating ==
    \A i \in DOMAIN llm_calls :
        /\ processed[i].status = "detected"
        /\ processed[i].combined_score >= MinScore
        /\ NoClearSignal(processed[i])

\* what holds of the postings filter_job is called for: detected, at or above
\* the threshold, and not rejected by the quick filter
C12_CalledAreDetectedAboveThreshold ==
    \A i \in DOMAIN llm_calls :
        /\ processed[i].status = "detected"
        /\ processed[i].combined_score >= MinScore
        /\ quick_check(processed[i]).suitable

\* the call of filter_job ended without a usable answer
FailedCall(outcome) == outcome \in {"raises", "none", "empty", "unparseable"}

\* the step of apply_llm_filter that applies the results of filter_jobs_batch
ResultsApplied == pc = "llm_batch" /\ pc' = "top"

\* every job of the batch keeps its status and nothing is counted: what the
\* step does when the batch call raised
BatchLeftAlone ==
    /\ \A i \in llm_todo : processed'[i].status = "detected"
    /\ stats'.total_filtered_llm = stats.total_filtered_llm

\* every job of the batch gets the outcome of its own call: filtered when the
\* answer said unsuitable, detected otherwise, and only the former counted
EachByOwnCall ==
    /\ \A i \in llm_todo :
         processed'[i].status =
             IF llm_calls[i] = "unsuitable" THEN "filtered" ELSE "detected"
    /\ stats'.total_filtered_llm =
           stats.total_filtered_llm
             + Cardinality({ i \in llm_todo : llm_calls[i] = "unsuitable" })

\* C13: when the results of the deeper analysis are applied, a posting whose
\* call of filter_job raised, returned nothing, returned an empty answer or
\* an unparseable one stays detected and is not counted as filtered, also
\* when the whole batch call raised; and the failure of one call does not
\* change the outcome of another posting: each posting of the batch is
\* filtered exactly when its own call answered unsuitable (or none is, when
\* the batch call raised).
C13_FailuresDefaultSuitable ==
    [][ResultsApplied =>
          /\ \A i \in llm_todo :
               FailedCall(llm_calls[i]) => processed'[i].status = "detected"
          /\ stats'.total_filtered_llm - stats.total_filtered_llm
                <= Cardinality({ i \in llm_todo : ~FailedCall(llm_calls[i]) })
          /\ (BatchLeftAlone \/ EachByOwnCall)]_vars

\* the calls of a batch have ended: one failed and another answered unsuitable
C13_Witness ==
    /\ pc = "llm_batch"
    /\ DOMAIN llm_calls = llm_todo
    /\ \E i, j \in llm_todo :
         /\ i # j
         /\ FailedCall(llm_calls[i])
         /\ llm_calls[j] = "unsuitable"

\* send_notifications has marked the batch it sent
NotificationsMarked ==
    /\ pc = "summary"
    /\ to_notify # <<>>
    /\ Len(send_results) = Len(to_notify)

\* C29: after send_notifications, whatever the pattern of successes and
\* failures of the sends, a posting of the batch has status notified, in
\* memory and in the store, if and only if its own send returned success, and
\* total_notified is the number of postings so marked.
C29_MarksMatchDeliveries ==
    NotificationsMarked =>
        /\ \A k \in 1..Len(to_notify) :
             LET job == processed[to_notify[k]] IN
             /\ job.status = "notified" <=> send_results[k]
             /\ db_jobs[job.job_id].status = "notified" <=> send_results[k]
        /\ stats.total_notified
             = Cardinality({ k \in 1..Len(to_notify) :
                               processed[to_notify[k]].status = "notified" })

\* what holds of the marks: total_notified is the number of postings marked,
\* and memory and store agree on them
C29_CountMatchesMarks ==
    NotificationsMarked =>
        /\ stats.total_notified
             = Cardinality({ k \in 1..Len(to_notify) :
                               processed[to_notify[k]].status = "notified" })
        /\ \A k \in 1..Len(to_notify) :
             LET job == processed[to_notify[k]] IN
             job.status = "notified" <=> db_jobs[job.job_id].status = "notified"

\* the step from jobs_table to swept deletes only rows older than days with
\* status detected or filtered, and leaves every other row as it was
SweepFrame(jobs_table, swept, days) ==
    /\ DOMAIN swept \subseteq DOMAIN jobs_table
    /\ \A id \in DOMAIN jobs_table :
         IF id \in DOMAIN swept
         THEN swept[id] = jobs_table[id]
         ELSE /\ jobs_table[id].status \in {"detected", "filtered"}
              /\ jobs_table[id].age > days
    /\ \A id \in DOMAIN jobs_table :
         jobs_table[id].status = "notified" \/ jobs_table[id].age <= days
            => id \in DOMAIN swept

\* C24: cleanup_old_jobs deletes only records with status detected or
\* filtered whose fetched_at is older than the cutoff; every notified record
\* and every record newer than the cutoff is left unchanged, and the set of
\* notified fingerprints does not shrink.
C24_SweepFrame ==
    [][CleanupOldJobs =>
         /\ \E days \in 1..MaxDays : SweepFrame(db_jobs, db_jobs', days)
         /\ get_notified_job_ids(db_jobs) \subseteq get_notified_job_ids(db_jobs')]_vars

\* after a sweep: a notified record older than every cutoff is in the store,
\* and a posting that had been stored and delivered is no longer there
C24_Witness ==
    /\ pc = "idle"
    /\ last_run = NoRun
    /\ \E id \in DOMAIN db_jobs :
         db_jobs[id].status = "notified" /\ db_jobs[id].age > MaxDays
    /\ \E id \in AllIds : deliveries[id] >= 1 /\ id \notin DOMAIN db_jobs

\* C27: every posting handed to the notification channel is already in
\* table jobs, whether the run goes on, returns or is interrupted after the
\* send, before or after the notified marks; so a run started again on the
\* same store finds the fingerprint known, and no fingerprint is accepted by
\* the channel a second time.
C27_PersistBeforeNotify ==
    /\ \A k \in 1..Len(send_results) :
         processed[to_notify[k]].job_id \in get_known_job_ids(db_jobs)
    /\ \A id \in AllIds :
         /\ deliveries[id] >= 1 => id \in get_known_job_ids(db_jobs)
         /\ deliveries[id] <= 1

\* the first run was interrupted after it delivered a posting (no row of
\* scan_history was ever written); the run started again fetched the posting,
\* found it known and has passed its notification phase
C27_Witness ==
    /\ runs = 2
    /\ scan_count = 0
    /\ pc = "summary"
    /\ \E i \in 1..Len(raw_jobs) :
         /\ deliveries[job_id(raw_jobs[i])] = 1
         /\ job_id(raw_jobs[i]) \in known_ids
         /\ db_jobs[job_id(raw_jobs[i])].status = "detected"

(***************************************************************************)
(* Properties of the quota.                                               *)
(***************************************************************************)
\* C9: an execution of fetch_jobs that read a usage counter at or above the
\* monthly limit when it started has returned no posting and the
\* limit-reached indication, and has sent no request and made no increment.
C9_QuotaGating ==
    \A f \in 1..MaxFetchers :
        (fetcher[f].pc # "idle" /\ fetcher[f].usage >= MonthlyLimit) =>
            /\ fetcher[f].pc = "done"
            /\ fetcher[f].jobs = 0
            /\ fetcher[f].error = "Monthly limit reached"
            /\ fetcher[f].issued = 0
            /\ fetcher[f].counted = 0

\* the counter reached the limit through counted requests, and an execution
\* that started then was turned away
C9_Witness ==
    /\ requests[month] >= MonthlyLimit
    /\ \E f \in 1..MaxFetchers :
         /\ fetcher[f].pc = "done"
         /\ fetcher[f].usage >= MonthlyLimit
         /\ fetcher[f].error = "Monthly limit reached"

\* the usage counter of the current month, as the running program reads it
StoredCounter ==
    IF impl = "src" THEN get_api_usage(api_usage, month)
    ELSE get_serpapi_usage(usage_file, month)

\* C10: the requests sent in a month never exceed the monthly limit, and
\* when no execution of fetch_jobs is under way the stored counter of the
\* month equals the requests sent in it.
C10_QuotaNeverOverspent ==
    /\ \A m \in 1..MaxMonth : requests[m] <= MonthlyLimit
    /\ (\A f \in 1..MaxFetchers : fetcher[f].pc \in {"idle", "done"})
           => StoredCounter = requests[month]

(***************************************************************************)
(* Properties of the matcher and the filters.                              *)
(***************************************************************************)
\* the text of the sample, as check_experience reads it, asks for 8 or more
\* years of experience
AsksEightYears ==
    \E min_exp \in ExperienceYears(Lower(sample.title \o " " \o sample.description)) :
        min_exp >= 8

\* C14: check_experience flags as unsuitable every posting whose title or
\* description asks for 8 or more years of experience, whichever other
\* patterns, junior-friendly language included, occur in the text.
C14_YearsRule ==
    ("check_experience" \in DOMAIN applied /\ AsksEightYears)
        => ~applied["check_experience"].suitable

\* a score of match_job lies between 0 and 1
InUnit(score) == 0 <= score /\ score <= One

\* C15: for every posting match_job produces, whatever the cosine
\* similarities, the failure of the embedding, the profile embeddings at
\* hand and the penalties, semantic_score, keyword_score and combined_score
\* lie between 0 and 1.
C15_ScoreBounds ==
    "match_job" \in DOMAIN applied
        => /\ InUnit(applied["match_job"].semantic_score)
           /\ InUnit(applied["match_job"].keyword_score)
           /\ InUnit(applied["match_job"].combined_score)

\* the part of the bounds that holds: no score exceeds 1, and the keyword
\* score is not negative
C15_UpperBounds ==
    "match_job" \in DOMAIN applied
        => /\ applied["match_job"].semantic_score <= One
           /\ InUnit(applied["match_job"].keyword_score)
           /\ applied["match_job"].combined_score <= One

\* combined_score of match_job for the sample before the penalty for a job
\* outside India is applied
pre_discount_score ==
    LET locals == SampleLocals[sample]
    IN penalised_score_of(semantic_score_of(locals.job_text, sample.embedding,
                                            profile_embeddings, locals.keyword_score),
                          locals.keyword_score, locals.relevance)

\* match_job has returned for a sample it places outside India
MatchedOutsideIndia ==
    "match_job" \in DOMAIN applied /\ ~applied["match_job"].is_india

\* C16 as stated: for every posting outside the target region the final
\* combined_score is at most 0.3 times the score before the discount, and
\* the posting is filtered whenever the final score is below the threshold.
C16_DiscountAtMost ==
    MatchedOutsideIndia
        => /\ 10 * applied["match_job"].combined_score <= 3 * pre_discount_score
           /\ (applied["match_job"].combined_score < MinScore
                  => applied["match_job"].status = "filtered")

\* C16, amended: for every posting outside the target region the final
\* combined_score is 0.3 times the score before the discount rounded to four
\* decimals, so at most 0.00005 above 0.3 times that score, and the posting
\* is filtered whatever its score.
C16_DiscountRounded ==
    MatchedOutsideIndia
        => /\ applied["match_job"].combined_score
                = Round4((pre_discount_score * 3) \div 10)
           /\ 10 * applied["match_job"].combined_score <= 3 * pre_discount_score + 500
           /\ applied["match_job"].status = "filtered"

\* match_job has discounted a score of 0.6 or more to one below the threshold
C16_Witness ==
    /\ MatchedOutsideIndia
    /\ pre_discount_score >= 600000
    /\ applied["match_job"].combined_score < MinScore
    /\ applied["match_job"].combined_score > 0

\* the title of the sample contains a term of EXCLUDE_KEYWORDS
TitleHasExclusion == ContainsAny(Lower(sample.title), EXCLUDE_KEYWORDS)

\* C17: a posting whose title contains an exclusion term is not marked
\* relevant whatever its description, its location, its age and its scores:
\* match_job gives it the status filtered, never detected, and
\* get_top_matches does not select it for notification.
C17_RelevanceVeto ==
    ("match_job" \in DOMAIN applied /\ TitleHasExclusion)
        => /\ ~SampleLocals[sample].relevance.is_relevant
           /\ applied["match_job"].status = "filtered"
           /\ RelevantSorted(<<applied["match_job"]>>) = <<>>

\* match_job has returned for 'Senior Sales Director' with a description full
\* of keywords, a place in India and a high similarity
C17_Witness ==
    /\ "match_job" \in DOMAIN applied
    /\ sample.title = "Senior Sales Director"
    /\ applied["match_job"].is_india
    /\ applied["match_job"].keyword_score >= 250000
    /\ applied["match_job"].semantic_score >= 900000
    /\ applied["match_job"].status = "filtered"

\* the location of the sample is empty or a placeholder without information
NoLocationInfo ==
    Lower(Strip(sample.location)) \in {"", "unknown", "n/a", "not specified", "tbd"}

\* the description of the sample contains an exclusion term
DescriptionHasExclusion ==
    \/ ContainsAny(Lower(sample.description), exclusion_patterns)
    \/ ContainsAny(Lower(sample.description), EXCLUDE_LOCATIONS)

\* C18: a posting without location information (an empty location or a
\* placeholder) whose description contains no exclusion term is classified
\* as of the target region: is_india is True.
C18_LocationLeniency ==
    ("match_job" \in DOMAIN applied /\ NoLocationInfo /\ ~DescriptionHasExclusion)
        => applied["match_job"].is_india

\* match_job has returned for a sample with an empty location and a
\* description that names no place and has no exclusion term
C18_Witness ==
    /\ "match_job" \in DOMAIN applied
    /\ sample.location = ""
    /\ ~DescriptionHasExclusion
    /\ ~ContainsAny(Lower(sample.description), INDIA_LOCATIONS_11)
    /\ ~ContainsAny(Lower(sample.description), remote_keywords)
    /\ applied["match_job"].is_india

\* the posted text of the sample mentions a week, a month or a year and
\* matches no earlier rule of _parse_job_age
MentionsStaleUnit ==
    /\ Truthy(sample.posted)
    /\ LET posted_lower == Strip(Lower(StrOf(sample.posted))) IN
       /\ ContainsAny(posted_lower, <<"week", "month", "year">>)
       /\ ~ContainsAny(posted_lower,
                       <<"just", "now", "moment", "second", "few", "minute", "hour",
                         "today", "yesterday", "day">>)

\* C19: for every posted text that mentions 'week', 'month' or 'year' and
\* matches no earlier rule, _parse_job_age returns +infinity, and match_job
\* does not give the posting the status detected.
C19_StaleExcluded ==
    MentionsStaleUnit
        => /\ ("_parse_job_age" \in DOMAIN applied => applied["_parse_job_age"] = Inf)
           /\ ("match_job" \in DOMAIN applied
                 => applied["match_job"].status # "detected")

\* what holds of the stale units: a posted text that mentions a month or a
\* year and matches no earlier rule has the age +infinity and is filtered
C19_MonthsAndYears ==
    (/\ MentionsStaleUnit
     /\ ~Contains(Lower(StrOf(sample.posted)), "week"))
        => /\ ("_parse_job_age" \in DOMAIN applied => applied["_parse_job_age"] = Inf)
           /\ ("match_job" \in DOMAIN applied
                 => applied["match_job"].status = "filtered")

\* the posted value of the sample is missing or empty
EmptyPosted == sample.posted = PyNone \/ sample.posted = PyStr("")

\* C20: for a missing or empty posted value each of the three age
\* estimators returns a finite age, never +infinity.
C20_EmptyAgeLenient ==
    EmptyPosted
        => \A f \in {"_parse_job_age", "parse_job_age_hours", "_parse_job_age_hours"} :
               f \in DOMAIN applied => applied[f].kind = "finite"

\* what holds for a missing or empty posted value: the estimator of the
\* pipeline returns 24 hours and match_job takes the posting as fresh
C20_PipelineEstimatorLenient ==
    EmptyPosted
        => /\ ("_parse_job_age" \in DOMAIN applied
                 => applied["_parse_job_age"] = Hours(24))
           /\ ("match_job" \in DOMAIN applied
                 => AgeAtMost(applied["match_job"].age_hours, max_job_age_hours))

\* the rules of the two estimators for each posted value, computed once
SampleRules ==
    [posted \in SamplePosted |->
        [semantic |-> semantic_rules(StrOf(posted)),
         legacy |-> [value \in payload_values(posted) |-> legacy_rules(value)]]]

\* the posted value of the sample is not empty, so that the estimators reach
\* their rules
ReachesRules == Truthy(sample.posted) /\ Strip(StrOf(sample.posted)) # ""

unrounded_combined_score ==
    LET locals == SampleLocals[sample]
    IN combined_score_of(semantic_score_of(locals.job_text, sample.embedding,
                                           profile_embeddings, locals.keyword_score),
                         locals.keyword_score, locals.relevance, locals.place.is_india)

\* the other three conditions of the status detected: the target region, a
\* relevant title and an age of at most max_job_age_hours
RegionTitleAndAgePass ==
    /\ applied["match_job"].is_india
    /\ SampleLocals[sample].relevance.is_relevant
    /\ AgeAtMost(applied["match_job"].age_hours, max_job_age_hours)

\* C26 as stated: match_job gives a posting the status detected if and only
\* if it is of the target region, its title is relevant, its age is at most
\* max_job_age_hours and the combined_score of the posting is at least the
\* threshold; in every other case the status is filtered.
C26_StatusDecision ==
    "match_job" \in DOMAIN applied
        => /\ applied["match_job"].status \in {"detected", "filtered"}
           /\ applied["match_job"].status = "detected"
                <=> (RegionTitleAndAgePass
                     /\ applied["match_job"].combined_score >= MinScore)

\* C26, amended: the status is detected if and only if the posting is of the
\* target region, its title is relevant, its age is at most
\* max_job_age_hours and its combined score before the rounding to four
\* decimals is at least the threshold; otherwise it is filtered.  A detected
\* posting has a stored combined_score of at least the threshold.
C26_StatusDecisionBeforeRounding ==
    "match_job" \in DOMAIN applied
        => /\ applied["match_job"].status \in {"detected", "filtered"}
           /\ applied["match_job"].status = "detected"
                <=> (RegionTitleAndAgePass /\ unrounded_combined_score >= MinScore)
           /\ applied["match_job"].status = "detected"
                => applied["match_job"].combined_score >= MinScore

\* match_job has filtered a posting that passes the other three conditions
\* and whose score is below the threshold before the rounding and at the
\* threshold after it
C26_Witness ==
    /\ "match_job" \in DOMAIN applied
    /\ RegionTitleAndAgePass
    /\ unrounded_combined_score < MinScore
    /\ applied["match_job"].combined_score = MinScore
    /\ applied["match_job"].status = "filtered"

\* what _check_location_india finds in the location and description of the
\* sample
SampleCombined == Lower(sample.location \o " " \o sample.description)

SampleIndiaExplicit == ContainsAny(SampleCombined, INDIA_LOCATIONS_11)

SampleIsRemote == ContainsAny(SampleCombined, remote_keywords)

SampleHasExclusion == ContainsAny(SampleCombined, exclusion_patterns)

SampleHasExplicitOther == ContainsAny(SampleCombined, EXCLUDE_LOCATIONS)

\* C30: _check_location_india returns is_india False exactly when the text
\* names no place in India, has no remote keyword, the location carries
\* information and an excluded location is mentioned, and True in every other
\* case; and for no combination of the other findings does the presence of
\* an exclusion phrase change the decision.
C30_LocationCharacterisation ==
    /\ "match_job" \in DOMAIN applied
         => (applied["match_job"].is_india
               <=> ~(/\ ~SampleIndiaExplicit
                     /\ ~SampleIsRemote
                     /\ ~NoLocationInfo
                     /\ SampleHasExplicitOther))
    /\ \A india_explicit, is_remote, no_location_info, has_explicit_other \in BOOLEAN :
         is_india_decision(india_explicit, is_remote, TRUE, no_location_info,
                           has_explicit_other)
           = is_india_decision(india_explicit, is_remote, FALSE, no_location_info,
                               has_explicit_other)

\* match_job has returned for a remote posting with the phrase 'US only' and
\* no place in India: it is of the target region
C30_Witness ==
    /\ "match_job" \in DOMAIN applied
    /\ SampleIsRemote
    /\ SampleHasExclusion
    /\ ~SampleIndiaExplicit
    /\ ~NoLocationInfo
    /\ applied["match_job"].is_india
    /\ applied["match_job"].is_remote

(***************************************************************************)
(* Properties of the embedding backend.                                    *)
(***************************************************************************)
\* from the state reset_model leaves, a request that is not answered from
\* the cache tries to load the model
LoadsAfterReset ==
    ResetModel =>
        \A text \in BackendTexts, load_ok, encode_ok \in BOOLEAN :
            normalized_text(text) \notin _embeddings_cache' =>
                get_embedding([model |-> _model', failed |-> _model_failed',
                               cache |-> _embeddings_cache'],
                              text, load_ok, encode_ok).attempted

\* C22: once the backend has failed, by a failed load or by an encode error,
\* no later call of get_embedding tries to load the model until reset_model
\* is called; after reset_model the next request that reaches the backend
\* tries the load again.
C22_FailureCached ==
    [][/\ backend_failed /\ backend_failed' => load_attempts' = load_attempts
       /\ LoadsAfterReset]_vars

\* what holds: once a load has failed no later call tries to load the model
\* until reset_model is called, and after reset_model the next request that
\* reaches the backend tries the load again
C22_LoadFailureCached ==
    [][/\ _model_failed /\ _model_failed' => load_attempts' = load_attempts
       /\ LoadsAfterReset]_vars

(***************************************************************************)
(* Properties of fetch_all_jobs.                                           *)
(***************************************************************************)
\* C23: at every moment of fetch_all_jobs at most max_concurrent_requests
\* fetches are in flight, and, every fetch terminating, the fetch of every
\* source is eventually started and finished.
C23_BoundedFetch ==
    /\ [](Cardinality(InFlight) <= max_concurrent_requests)
    /\ <>(\A t \in FetchTasks : fetch_pc[t] \in {"idle", "returned", "raised"})

\* the cap is reached while a task waits and another has already finished
C23_Witness ==
    /\ Cardinality(InFlight) = max_concurrent_requests
    /\ semaphore.waiters # <<>>
    /\ \E t \in FetchTasks : fetch_pc[t] \in {"returned", "raised"}

(***************************************************************************)
(* Properties of the normalizer.                                           *)
(***************************************************************************)
\* the items of the payload that match the keywords
MatchingItems == { i \in 1..Len(payload) : item_matches(payload[i]) }

\* the fields of a RawJob are strings, the optional ones strings or None
FieldsDefaulted(job) ==
    /\ \A field \in {"title", "company", "location", "description", "url"} :
         job[field].type = "str"
    /\ \A field \in {"posted", "salary"} : job[field].type \in {"str", "NoneType"}

\* C25: whatever keys of an item are absent or null, building its RawJob
\* does not fail: fetch_jobs returns without an error, with one RawJob for
\* every item that matches the keywords, the other item of the batch
\* included, and the fields of each are defaulted.
C25_NormalizerNeverRaises ==
    remoteok.done /\ payload # <<>> =>
        /\ remoteok.error = "None"
        /\ Len(remoteok.jobs) = Cardinality(MatchingItems)
        /\ \A k \in 1..Len(remoteok.jobs) : FieldsDefaulted(remoteok.jobs[k])

\* what holds: the batch fails only on an item whose location is null, and
\* without such an item every matching item is produced with its fields
\* defaulted
C25_FailsOnNullLocationOnly ==
    remoteok.done /\ payload # <<>> =>
        IF \E i \in MatchingItems : payload[i].location = PyNone
        THEN remoteok.error = "ValidationError"
        ELSE /\ remoteok.error = "None"
             /\ Len(remoteok.jobs) = Cardinality(MatchingItems)
             /\ \A k \in 1..Len(remoteok.jobs) : FieldsDefaulted(remoteok.jobs[k])

(***************************************************************************)
(* Properties of main of job_watchdog.py.                                  *)
(***************************************************************************)
\* C28: in one execution of main, in which a job may be returned under
\* several search configurations, no job id is given to send_telegram more
\* than once.
C28_LegacySendsOnce ==
    \A i, j \in 1..Len(legacy_main.sent) :
        legacy_main.sent[i] = legacy_main.sent[j] => i = j

\* what holds: every id given to send_telegram is in the history that is
\* saved
C28_SentAreRemembered ==
    \A i \in 1..Len(legacy_main.sent) : legacy_main.sent[i] \in legacy_main.history

====
